---------------------------- MODULE Spec2Model ----------------------------
(***************************************************************************)
(* A model of the CDTools ptychography models: FancyPtycho (construction,  *)
(* interaction, tidy_probes), SimplePtycho (ePIE), TimeResolvedRPI, and    *)
(* analysis.orthogonalize_probes.                                          *)
(*                                                                         *)
(* Numbers are exact complex rationals <<a, b, d>> = (a + b i) / d in      *)
(* lowest terms, d >= 1.  <<0, 0, 0>> is a non-finite value (nan / inf).   *)
(* Matrices are sequences of rows.                                         *)
(***************************************************************************)
EXTENDS Integers, Sequences, FiniteSets, TLC

VARIABLES
    model,                \* "none" before construction, else the model class
    probe,                \* self.probe : K modes, each a vector over the pixels
    obj,                  \* self.obj
    weights,              \* self.weights : None, 1-D, or N matrices R x K
    background,           \* self.background
    translation_offsets,  \* self.translation_offsets
    pc,                   \* position inside the running operation
    op,                   \* the operation that ran last and how it ended
    locals,               \* arguments and local variables of the running operation
    hist                  \* what an observer recorded (old values, sqrt arguments, losses)

vars == <<model, probe, obj, weights, background, translation_offsets,
          pc, op, locals, hist>>

params == <<probe, obj, weights, background, translation_offsets>>

\* Bounds of the model
MaxShots == 2         \* diffraction patterns in a dataset
MaxCalls == 1         \* calls of tidy_probes / orthogonalize_probes in one run
MaxModes == 2         \* probe modes of a constructed model
MaxSteps == 1         \* gradient steps in one run
MaxChain == 2         \* operations applied in a row to one wavefield
MaxIterations == 1    \* iterations asked of ePIE
MaxFrames == 5        \* probe frames of a time-resolved model
MaxRate == 3          \* probe frames per object frame

\* Python's None (every optional value is a record, so that it compares with None)
None == [none |-> TRUE]

-----------------------------------------------------------------------------
(* Exact complex arithmetic *)

Abs(n) == IF n < 0 THEN -n ELSE n

RECURSIVE GCD(_, _)
GCD(m, n) == IF n = 0 THEN m ELSE GCD(n, m % n)

NaN == <<0, 0, 0>>

IsFinite(x) == x[3] # 0

Norm(a, b, d) ==
    IF d = 0 THEN NaN
    ELSE LET g == GCD(GCD(Abs(a), Abs(b)), Abs(d))
             s == IF d < 0 THEN -1 ELSE 1
         IN  <<(s * a) \div g, (s * b) \div g, (s * d) \div g>>

Re(n) == <<n, 0, 1>>
Cx(a, b, d) == Norm(a, b, d)
Zero == Re(0)
One == Re(1)

\* sums and products, over the least common denominator
CAdd(x, y) ==
    IF x[3] = 0 \/ y[3] = 0 THEN NaN
    ELSE LET g == GCD(x[3], y[3])
         IN  Norm(x[1] * (y[3] \div g) + y[1] * (x[3] \div g),
                  x[2] * (y[3] \div g) + y[2] * (x[3] \div g),
                  x[3] * (y[3] \div g))

CMul(x, y) ==
    IF x[3] = 0 \/ y[3] = 0 THEN NaN
    ELSE LET n == Norm(x[1] * y[1] - x[2] * y[2], x[1] * y[2] + x[2] * y[1], x[3])
             g == GCD(GCD(Abs(n[1]), Abs(n[2])), y[3])
         IN  <<n[1] \div g, n[2] \div g, n[3] * (y[3] \div g)>>

CConj(x) == <<x[1], -x[2], x[3]>>

\* 1 / x ; numpy gives inf or nan for 1 / 0
CInv(x) ==
    IF x[3] = 0 \/ (x[1] = 0 /\ x[2] = 0) THEN NaN
    ELSE IF x[2] = 0
         THEN Norm(IF x[1] < 0 THEN -x[3] ELSE x[3], 0, Abs(x[1]))
         ELSE Norm(x[1] * x[3], -(x[2] * x[3]), x[1] * x[1] + x[2] * x[2])

CDiv(x, y) == CMul(x, CInv(y))

AbsSq(x) == CMul(x, CConj(x))

IsRealNum(x) == x[3] # 0 /\ x[2] = 0
IsNeg(x) == x[3] # 0 /\ x[2] = 0 /\ x[1] < 0
RLeq(x, y) ==
    IF x[3] = 0 \/ y[3] = 0 THEN x[1] * y[3] <= y[1] * x[3]
    ELSE x[1] * (y[3] \div GCD(x[3], y[3])) <= y[1] * (x[3] \div GCD(x[3], y[3]))

RECURSIVE ISqrtFrom(_, _)
ISqrtFrom(n, r) == IF r * r >= n THEN r ELSE ISqrtFrom(n, r + 1)
ISqrt(n) == ISqrtFrom(n, 0)
IsSquare(n) == n >= 0 /\ ISqrt(n) * ISqrt(n) = n

\* Whether the square root of the real x is a rational number
HasSqrt(x) == x[3] = 0 \/ x[1] < 0 \/ (IsSquare(x[1]) /\ IsSquare(x[3]))

\* np.sqrt of a real: nan for a negative or non-finite argument
Sqrt(x) ==
    IF x[3] = 0 \/ x[1] < 0 THEN NaN
    ELSE <<ISqrt(x[1]), 0, ISqrt(x[3])>>

\* np.maximum(x, 0) of a real: nan stays nan
Maximum0(x) == IF x[3] = 0 THEN NaN ELSE IF x[1] < 0 THEN Zero ELSE x

-----------------------------------------------------------------------------
(* Vectors and matrices *)

RECURSIVE SumTo(_, _)
SumTo(f, n) == IF n = 0 THEN Zero ELSE CAdd(SumTo(f, n - 1), f[n])

CSum(s) == SumTo(s, Len(s))

\* the sequence <<f[1], ..., f[n]>>, every element computed once
RECURSIVE Tab(_, _)
Tab(f, n) == IF n = 0 THEN <<>> ELSE Append(Tab(f, n - 1), f[n])

\* the n x m matrix of f[<<i, j>>]
Mat(f, n, m) == Tab([i \in 1..n |-> Tab([j \in 1..m |-> f[<<i, j>>]], m)], n)

MatMul(X, Y) ==
    Mat([ij \in (1..Len(X)) \X (1..Len(Y[1])) |->
            SumTo([k \in 1..Len(Y) |-> CMul(X[ij[1]][k], Y[k][ij[2]])], Len(Y))],
        Len(X), Len(Y[1]))

Transpose(X) ==
    Mat([ij \in (1..Len(X[1])) \X (1..Len(X)) |-> X[ij[2]][ij[1]]], Len(X[1]), Len(X))
Conj(X) ==
    Mat([ij \in (1..Len(X)) \X (1..Len(X[1])) |-> CConj(X[ij[1]][ij[2]])],
        Len(X), Len(X[1]))
Dagger(X) == Conj(Transpose(X))
Scale(c, X) ==
    Mat([ij \in (1..Len(X)) \X (1..Len(X[1])) |-> CMul(c, X[ij[1]][ij[2]])],
        Len(X), Len(X[1]))
Diag(w) ==
    Mat([ij \in (1..Len(w)) \X (1..Len(w)) |-> IF ij[1] = ij[2] THEN w[ij[1]] ELSE Zero],
        Len(w), Len(w))
Eye(n) == Mat([ij \in (1..n) \X (1..n) |-> IF ij[1] = ij[2] THEN One ELSE Zero], n, n)
Reverse(s) == Tab([i \in 1..Len(s) |-> s[Len(s) + 1 - i]], Len(s))
ReverseCols(X) == Tab([i \in 1..Len(X) |-> Reverse(X[i])], Len(X))

MatFinite(X) == \A i \in 1..Len(X) : \A j \in 1..Len(X[i]) : IsFinite(X[i][j])

\* <x, y> = sum over pixels of x * conj(y)
Inner(x, y) == SumTo([p \in 1..Len(x) |-> CMul(x[p], CConj(y[p]))], Len(x))


-----------------------------------------------------------------------------
(* The LAPACK primitives, by their contracts.  A decomposition is any one   *)
(* that satisfies the routine's contract and whose entries lie in the       *)
(* candidate set below (two modes; unit vectors built from 0, 1 and the     *)
(* 3-4-5 triple, with phases 1, -1, i, -i).                                 *)

UnitEntries ==
    { Cx(c[1], c[2], 5) :
        c \in { c \in { <<a, b>> : a \in {-5, -4, -3, 0, 3, 4, 5},
                                    b \in {-5, -4, -3, 0, 3, 4, 5} } :
                   c[1] = 0 \/ c[2] = 0 } }

UnitVectors ==
    { x \in { <<a, b>> : a \in UnitEntries, b \in UnitEntries } :
        CAdd(AbsSq(x[1]), AbsSq(x[2])) = One }

Unitaries ==
    { u \in { <<x, y>> : x \in UnitVectors, y \in UnitVectors } :
        Inner(u[1], u[2]) = Zero }

\* The bases a decomposition returns: every column is taken with its first
\* non-zero entry real and positive (one representative of each phase class).
LeadPositive(x) ==
    IF x[1] # Zero THEN x[1][2] = 0 /\ x[1][1] > 0 ELSE x[2][2] = 0 /\ x[2][1] > 0

Bases == { u \in Unitaries : \A j \in 1..2 : LeadPositive(<<u[1][j], u[2][j]>>) }

\* Eigenvalues the routine may return for a matrix whose exact eigenvalues
\* are w: rounding can turn an exact zero into a tiny negative number.
Tiny == Cx(-1, 0, 1000000)

Rounded(w) ==
    { r \in [1..Len(w) -> {Zero, Tiny} \cup { w[i] : i \in 1..Len(w) }] :
        \A i \in 1..Len(w) : r[i] = w[i] \/ (w[i] = Zero /\ r[i] = Tiny) }

IsDiagonal(D) == \A i \in 1..Len(D) : \A j \in 1..Len(D) : i # j => D[i][j] = Zero

\* scipy.linalg.eigh(a): check_finite raises ValueError on nan / inf
EighRaises(a) == ~MatFinite(a)

\* scipy.linalg.eigh(a) for Hermitian a: eigenvalues ascending, a v = v diag(w)
EighSet(a) ==
    UNION { LET D == MatMul(Dagger(v), MatMul(a, v))
                w == Tab([i \in 1..Len(a) |-> D[i][i]], Len(a))
            IN  IF IsDiagonal(D) /\ (\A i \in 1..Len(a) : IsRealNum(w[i]))
                   /\ (\A i \in 1..(Len(a) - 1) : RLeq(w[i], w[i + 1]))
                THEN { [w |-> r, v |-> v] : r \in Rounded(w) }
                ELSE {}
          : v \in Bases }

\* scipy.linalg.svd(a): check_finite raises ValueError on nan / inf
SvdRaises(a) == ~MatFinite(a)

\* The rows vh can have for singular values s and T = u^dagger a = diag(s) vh:
\* a row with s[i] # 0 is T[i] / s[i]; a row with s[i] = 0 is any unit vector
\* orthogonal to the others.
Orthogonal(x) == <<CMul(Re(-1), CConj(x[2])), CConj(x[1])>>

RowOver(T, s, i) == Tab([p \in 1..Len(T[i]) |-> CDiv(T[i][p], s[i])], Len(T[i]))

SvdRows(T, s) ==
    IF s[2] # Zero THEN { <<RowOver(T, s, 1), RowOver(T, s, 2)>> }
    ELSE IF s[1] # Zero
         THEN { <<RowOver(T, s, 1), Orthogonal(RowOver(T, s, 1))>> }
         ELSE Bases

\* scipy.linalg.svd(a, full_matrices=False): a = u diag(s) vh, s descending
SvdSet(a) ==
    UNION { LET T == MatMul(Dagger(u), a)
                n == Tab([i \in 1..Len(a) |-> Inner(T[i], T[i])], Len(a))
            IN  IF (\A i \in 1..Len(a) : \A j \in 1..Len(a) :
                        i # j => Inner(T[i], T[j]) = Zero)
                   /\ (\A i \in 1..Len(a) : HasSqrt(n[i]))
                   /\ (\A i \in 1..(Len(a) - 1) : RLeq(n[i + 1], n[i]))
                THEN LET s == Tab([i \in 1..Len(a) |-> Sqrt(n[i])], Len(a))
                     IN  { [u |-> u, s |-> s, vh |-> vh] : vh \in SvdRows(T, s) }
                ELSE {}
          : u \in Bases }

Det2(X) == CAdd(CMul(X[1][1], X[2][2]), CMul(Re(-1), CMul(X[1][2], X[2][1])))

FrobSq(X) == SumTo([i \in 1..Len(X) |-> Inner(X[i], X[i])], Len(X))

\* np.linalg.pinv(X): the Moore-Penrose inverse of a 2 x 2 matrix
Pinv(X) ==
    IF Det2(X) # Zero
    THEN Scale(CInv(Det2(X)),
               <<<<X[2][2], CMul(Re(-1), X[1][2])>>,
                 <<CMul(Re(-1), X[2][1]), X[1][1]>>>>)
    ELSE IF FrobSq(X) = Zero THEN X
    ELSE Scale(CInv(FrobSq(X)), Dagger(X))


-----------------------------------------------------------------------------
(* analysis.orthogonalize_probes *)

\* probes.reshape(K, H * W) and its inverse .reshape(K, H, W), row-major
Flatten(probes) ==
    Mat([kq \in (1..Len(probes)) \X (1..(Len(probes[1]) * Len(probes[1][1]))) |->
            probes[kq[1]][((kq[2] - 1) \div Len(probes[1][1])) + 1]
                         [((kq[2] - 1) % Len(probes[1][1])) + 1]],
        Len(probes), Len(probes[1]) * Len(probes[1][1]))

Unflatten(mat, H, W) ==
    Tab([k \in 1..Len(mat) |->
            Mat([hx \in (1..H) \X (1..W) |-> mat[k][(hx[1] - 1) * W + hx[2]]], H, W)],
        Len(mat))

\* w = np.maximum(w, 0)                       (analysis.py)
orthogonalize_clip(w) == Tab([i \in 1..Len(w) |-> Maximum0(w[i])], Len(w))

SqrtAll(w) == Tab([i \in 1..Len(w) |-> Sqrt(w[i])], Len(w))

Raised(args, eig) ==
    [raised |-> TRUE, ortho_probes |-> None, A |-> None, sqrt_args |-> args, eig |-> eig]

\* A faulty variant: the weighted probes are returned as they are, without the SVD
orthogonalize_nosvd(probes, B_dagger, normalize, w, eig) ==
    LET M == MatMul(B_dagger, Flatten(probes))
    IN  IF SvdRaises(M) THEN { Raised(w, eig) }
        ELSE { [raised |-> FALSE,
                ortho_probes |-> Unflatten(M, Len(probes[1]), Len(probes[1][1])),
                A |-> Pinv(B_dagger),
                sqrt_args |-> w,
                eig |-> eig] }

\* The results orthogonalize_probes(probes, density_matrix, keep_transform=True,
\* normalize) can return: raised, or ortho_probes and A, with the eigenvalues
\* eigh returned (eig) and the values handed to np.sqrt (sqrt_args).
orthogonalize_svd(probes, B_dagger, normalize, w, eig) ==
    LET M == MatMul(B_dagger, Flatten(probes))
        H == Len(probes[1])
        W == Len(probes[1][1])
    IN  IF SvdRaises(M) THEN { Raised(w, eig) }
        ELSE { [raised |-> FALSE,
                ortho_probes |->
                    IF normalize THEN Unflatten(sv.vh, H, W)
                    ELSE Unflatten(MatMul(Diag(sv.s), sv.vh), H, W),
                A |-> IF normalize
                      THEN MatMul(Pinv(B_dagger), MatMul(sv.u, Diag(sv.s)))
                      ELSE MatMul(Pinv(B_dagger), sv.u),
                sqrt_args |-> w,
                eig |-> eig] : sv \in SvdSet(M) }

Matrix(X) == Mat(X.at, X.shape[1], X.shape[2])

orthogonalize_probes(probes, density_matrix, normalize) ==
    LET dm == IF density_matrix = None THEN Eye(Len(probes))
              ELSE Matrix(density_matrix)
    IN  IF EighRaises(dm) THEN { Raised(<<>>, <<>>) }
        ELSE UNION { LET eig == Reverse(e.w)
                         v == ReverseCols(e.v)
                         w == orthogonalize_clip(eig)
                     IN  IF \A i \in 1..Len(w) : HasSqrt(w[i])
                         THEN orthogonalize_svd(
                                  probes, MatMul(Diag(SqrtAll(w)), Dagger(v)),
                                  normalize, w, eig)
                         ELSE {}
                   : e \in EighSet(dm) }

-----------------------------------------------------------------------------
(* Arrays with a shape, and numpy / torch broadcasting.  An array is        *)
(* [shape, at]: at maps each index tuple (1-based) to the element.          *)

MaxOf(sh) == IF sh = <<>> THEN 0 ELSE CHOOSE m \in { sh[i] : i \in 1..Len(sh) } :
                                        \A i \in 1..Len(sh) : sh[i] <= m

IndexSet(sh) ==
    IF sh = <<>> THEN { <<>> }
    ELSE { ix \in [1..Len(sh) -> 1..MaxOf(sh)] : \A i \in 1..Len(sh) : ix[i] <= sh[i] }

\* the function on S with the values of f, every value computed once
RECURSIVE Strict(_, _)
Strict(f, S) ==
    IF S = {} THEN <<>>
    ELSE LET x == CHOOSE y \in S : TRUE
         IN  (x :> f[x]) @@ Strict(f, S \ {x})

\* the array of shape sh whose entry at index ix is f[ix]
Array(sh, f) == [at |-> Strict(f, IndexSet(sh)), shape |-> sh]

Scalar(x) == [at |-> (<<>> :> x), shape |-> <<>>]

\* nested sequences <-> arrays
Array1(v) == LET F(ix) == v[ix[1]] IN Array(<<Len(v)>>, [ix \in Seq(Nat) |-> F(ix)])
Array2(m) == LET F(ix) == m[ix[1]][ix[2]] IN Array(<<Len(m), Len(m[1])>>, [ix \in Seq(Nat) |-> F(ix)])
Array3(c) ==
    LET F(ix) == c[ix[1]][ix[2]][ix[3]]
    IN  Array(<<Len(c), Len(c[1]), Len(c[1][1])>>, [ix \in Seq(Nat) |-> F(ix)])
Nested3(X) ==
    Tab([i \in 1..X.shape[1] |->
            Mat([jk \in (1..X.shape[2]) \X (1..X.shape[3]) |-> X.at[<<i>> \o jk]],
                X.shape[2], X.shape[3])],
        X.shape[1])

\* X[..., None, None] : n trailing axes of length 1
AddAxes(X, n) ==
    LET F(ix) == X.at[SubSeq(ix, 1, Len(X.shape))]
    IN  Array(X.shape \o [i \in 1..n |-> 1], [ix \in Seq(Nat) |-> F(ix)])

PadShape(sh, n) == [i \in 1..n |-> IF i <= n - Len(sh) THEN 1 ELSE sh[i - (n - Len(sh))]]

Broadcastable(a, b) ==
    LET n == IF Len(a) > Len(b) THEN Len(a) ELSE Len(b)
    IN  \A i \in 1..n : PadShape(a, n)[i] = PadShape(b, n)[i]
                        \/ PadShape(a, n)[i] = 1 \/ PadShape(b, n)[i] = 1

BroadcastShape(a, b) ==
    LET n == IF Len(a) > Len(b) THEN Len(a) ELSE Len(b)
    IN  [i \in 1..n |-> IF PadShape(a, n)[i] = 1 THEN PadShape(b, n)[i]
                        ELSE PadShape(a, n)[i]]

\* the element of an array of shape sh that index ix of the broadcast result reads
Project(ix, sh) ==
    [i \in 1..Len(sh) |-> IF sh[i] = 1 THEN 1 ELSE ix[i + Len(ix) - Len(sh)]]

\* X * Y with broadcasting
BMul(X, Y) ==
    LET F(ix) == CMul(X.at[Project(ix, X.shape)], Y.at[Project(ix, Y.shape)])
    IN  Array(BroadcastShape(X.shape, Y.shape), [ix \in Seq(Nat) |-> F(ix)])

RemoveAt(sq, p) == SubSeq(sq, 1, p - 1) \o SubSeq(sq, p + 1, Len(sq))
InsertAt(sq, p, x) == SubSeq(sq, 1, p - 1) \o <<x>> \o SubSeq(sq, p, Len(sq))

\* t.sum(X, axis=-back)
SumAxis(X, back) ==
    LET p == Len(X.shape) - back + 1
        F(ix) == SumTo([j \in 1..X.shape[p] |-> X.at[InsertAt(ix, p, j)]], X.shape[p])
    IN  Array(RemoveAt(X.shape, p), [ix \in Seq(Nat) |-> F(ix)])

\* X[index] for a batch of indices (a sequence) along the first axis
TakeBatch(X, index) ==
    LET F(ix) == X.at[<<index[ix[1]]>> \o Tail(ix)]
    IN  Array(<<Len(index)>> \o Tail(X.shape), [ix \in Seq(Nat) |-> F(ix)])

\* X[index] for one integer index
TakeOne(X, index) ==
    LET F(ix) == X.at[<<index>> \o ix]
    IN  Array(Tail(X.shape), [ix \in Seq(Nat) |-> F(ix)])

-----------------------------------------------------------------------------
(* FancyPtycho.interaction, lines 277-298: the probes of each shot *)

Ones(sh) == LET F(ix) == One IN Array(sh, [ix \in Seq(Nat) |-> F(ix)])

\* an index argument: a batch of shot numbers or one shot number
Batch(ix) == [batch |-> TRUE, ix |-> ix]
Single(n) == [batch |-> FALSE, ix |-> <<n>>]

\* X[index]
Take(X, index) == IF index.batch THEN TakeBatch(X, index.ix) ELSE TakeOne(X, index.ix[1])

\* A faulty variant: the weighted probes are summed over the rows of the
\* weight matrix instead of over the probe modes
interaction_mix_rows(probe_, probe_support_, weights_, index) ==
    LET basis_prs == BMul(Array3(probe_), probe_support_)
    IN  IF weights_ = None
        THEN IF index.batch
             THEN [raised |-> FALSE, error |-> "",
                   prs |-> BMul(AddAxes(Ones(<<Len(index.ix)>>), 3), basis_prs)]
             ELSE [raised |-> TRUE, error |-> "TypeError: 'int' object is not subscriptable",
                   prs |-> None]
        ELSE IF Len(TakeOne(weights_, 1).shape) = 0
             THEN [raised |-> FALSE, error |-> "",
                   prs |-> BMul(AddAxes(Take(weights_, index), 3), basis_prs)]
             ELSE [raised |-> FALSE, error |-> "",
                   prs |-> SumAxis(BMul(AddAxes(Take(weights_, index), 2), basis_prs), 4)]

\* lines 277-298.  Without weights, Ws is t.ones(len(index)) for a batch and
\* the Python number 1 for a single index, which cannot be subscripted.
interaction_mix(probe_, probe_support_, weights_, index) ==
    LET basis_prs == BMul(Array3(probe_), probe_support_)
    IN  IF weights_ = None
        THEN IF index.batch
             THEN [raised |-> FALSE, error |-> "",
                   prs |-> BMul(AddAxes(Ones(<<Len(index.ix)>>), 3), basis_prs)]
             ELSE [raised |-> TRUE, error |-> "TypeError: 'int' object is not subscriptable",
                   prs |-> None]
        ELSE IF Len(TakeOne(weights_, 1).shape) = 0
             THEN [raised |-> FALSE, error |-> "",
                   prs |-> BMul(AddAxes(Take(weights_, index), 3), basis_prs)]
             ELSE [raised |-> FALSE, error |-> "",
                   prs |-> SumAxis(BMul(AddAxes(Take(weights_, index), 2), basis_prs), 3)]

\* X + Y and X - Y with broadcasting
BAdd(X, Y) ==
    LET F(ix) == CAdd(X.at[Project(ix, X.shape)], Y.at[Project(ix, Y.shape)])
    IN  Array(BroadcastShape(X.shape, Y.shape), [ix \in Seq(Nat) |-> F(ix)])
BSub(X, Y) == BAdd(X, BMul(Scalar(Re(-1)), Y))

\* A faulty variant: the recovered offsets are added as they are stored,
\* without translation_scale
pix_trans_unscaled(to_pixel, min_translation, translation_scale, translation_offsets_, index) ==
    IF translation_offsets_ = None
    THEN BSub(to_pixel, min_translation)
    ELSE BAdd(BSub(to_pixel, min_translation), Take(translation_offsets_, index))

\* lines 266-275: the pixel translations of the shots, from the output to_pixel
\* of tools.interactions.translations_to_pixel
pix_trans(to_pixel, min_translation, translation_scale, translation_offsets_, index) ==
    IF translation_offsets_ = None
    THEN BSub(to_pixel, min_translation)
    ELSE BAdd(BSub(to_pixel, min_translation),
              BMul(Scalar(Re(translation_scale)), Take(translation_offsets_, index)))

-----------------------------------------------------------------------------
(* FancyPtycho.get_rhos and FancyPtycho.tidy_probes *)

get_rhos(weights_, n_modes) ==
    IF Len(weights_.shape) >= 2
    THEN LET Ws == Nested3(weights_)
         IN  Tab([n \in 1..Len(Ws) |-> MatMul(Transpose(Ws[n]), Conj(Ws[n]))], Len(Ws))
    ELSE Tab([n \in 1..weights_.shape[1] |-> Eye(n_modes)], weights_.shape[1])

\* np.mean(rhos, axis=0)
MeanOf(rhos) ==
    Mat([ij \in (1..Len(rhos[1])) \X (1..Len(rhos[1][1])) |->
            CDiv(SumTo([n \in 1..Len(rhos) |-> rhos[n][ij[1]][ij[2]]], Len(rhos)),
                 Re(Len(rhos)))],
        Len(rhos[1]), Len(rhos[1][1]))

\* A faulty variant: the eigenvalues are used as eigh returned them
tidy_noclip(w) == w

\* w = np.maximum(w, 0)                       (fancy_ptycho.py, per shot)
tidy_clip(w) == Tab([i \in 1..Len(w) |-> Maximum0(w[i])], Len(w))

FirstOf(sq, r) == SubSeq(sq, 1, IF r < Len(sq) THEN r ELSE Len(sq))

\* The loop body for one shot: the new weight matrix of shape dm_rank x K,
\* the eigenvalues eigh returned and the values handed to np.sqrt.
tidy_shot(rho, dm_rank) ==
    UNION { LET eig == FirstOf(Reverse(e.w), dm_rank)
                v == Tab([i \in 1..Len(e.v) |-> FirstOf(Reverse(e.v[i]), dm_rank)],
                         Len(e.v))
                w == tidy_clip(eig)
            IN  IF \A i \in 1..Len(w) : HasSqrt(w[i])
                THEN { [W |-> MatMul(Diag(SqrtAll(w)), Transpose(v)),
                        sqrt_args |-> w, eig |-> eig] }
                ELSE {}
          : e \in EighSet(rho) }

\* A faulty order: the probe is written before the per-shot loop has run
NextPcProbeFirst(p) ==
    CASE p = "tidy_ortho" -> "tidy_write_probe"
      [] p = "tidy_write_probe" -> "tidy_loop"
      [] p = "tidy_loop" -> "tidy_write_weights"
      [] p = "tidy_write_weights" -> "return"

\* The order of the statements of the matrix-weight case
NextPc(p) ==
    CASE p = "tidy_ortho" -> "tidy_loop"
      [] p = "tidy_loop" -> "tidy_write_weights"
      [] p = "tidy_write_weights" -> "tidy_write_probe"
      [] p = "tidy_write_probe" -> "return"

Elems(sq) == { sq[i] : i \in 1..Len(sq) }

\* the values of sq, each with the routine that handled it
At(site, sq) == { <<site, sq[i]>> : i \in 1..Len(sq) }

\* a local variable is None until it is assigned, then Val(its value)
Val(x) == [val |-> x]

NoLocals ==
    [normalization |-> None, normalize |-> None, ortho_probes |-> None,
     A |-> None, new_rhos |-> None, new_Ws |-> None, wave |-> None, result |-> None,
     epie |-> None, dataset |-> None, get_as_args |-> None]

\* the parameter set, as an observer records it when an operation starts
Snapshot ==
    [probe |-> probe, obj |-> obj, weights |-> weights, background |-> background,
     translation_offsets |-> translation_offsets]

\* the call ends with an exception: nothing more of it runs
Raise(name) ==
    /\ pc' = "idle"
    /\ op' = <<name, "raised">>

\* the statement at pc is done: go to the next one, or return
Advance(name) ==
    /\ pc' = IF NextPc(pc) = "return" THEN "idle" ELSE NextPc(pc)
    /\ op' = IF NextPc(pc) = "return" THEN <<name, "returned">> ELSE op

\* tidy_probes(normalization, normalize) is called; line 459 reads self.weights.dim()
TidyCall(normalization, normalize) ==
    /\ pc = "idle"
    /\ model.cls = "FancyPtycho"
    /\ hist.calls < MaxCalls
    /\ hist' = [hist EXCEPT !.calls = @ + 1, !.old = Snapshot]
    /\ locals' = [NoLocals EXCEPT !.normalization = Val(normalization),
                                  !.normalize = Val(normalize)]
    /\ IF weights = None
       THEN Raise("tidy_probes")
       ELSE /\ pc' = IF Len(weights.shape) = 1 THEN "tidy_incoherent" ELSE "tidy_ortho"
            /\ op' = <<"tidy_probes", "running">>
    /\ UNCHANGED <<model, params>>

\* A faulty variant of the incoherent case: the weights are renormalised as well
TidyIncoherentRenormalizing ==
    /\ pc = "tidy_incoherent"
    /\ \E r \in orthogonalize_probes(probe, None, FALSE) :
          /\ hist' = [hist EXCEPT
                         !.sqrt_args = @ \cup At("orthogonalize_probes", r.sqrt_args),
                         !.eigs = @ \cup At("orthogonalize_probes", r.eig)]
          /\ IF r.raised
             THEN Raise("tidy_probes") /\ UNCHANGED <<probe, weights>>
             ELSE /\ probe' = r.ortho_probes
                  /\ weights' = BMul(weights, Scalar(Re(2)))
                  /\ pc' = "idle"
                  /\ op' = <<"tidy_probes", "returned">>
    /\ UNCHANGED <<model, obj, background, translation_offsets, locals>>

\* lines 459-466: the purely incoherent case
TidyIncoherent ==
    /\ pc = "tidy_incoherent"
    /\ \E r \in orthogonalize_probes(probe, None, FALSE) :
          /\ hist' = [hist EXCEPT
                         !.sqrt_args = @ \cup At("orthogonalize_probes", r.sqrt_args),
                         !.eigs = @ \cup At("orthogonalize_probes", r.eig)]
          /\ IF r.raised
             THEN Raise("tidy_probes") /\ UNCHANGED probe
             ELSE /\ probe' = r.ortho_probes
                  /\ pc' = "idle"
                  /\ op' = <<"tidy_probes", "returned">>
    /\ UNCHANGED <<model, obj, weights, background, translation_offsets, locals>>

ScaleProbes(c, probes) ==
    Tab([k \in 1..Len(probes) |-> Scale(c, probes[k])], Len(probes))

\* lines 474-485
TidyOrtho ==
    /\ pc = "tidy_ortho"
    /\ LET rhos == get_rhos(weights, Len(probe))
           overall_rho == MeanOf(rhos)
           normalization == locals.normalization.val
       IN  \E r \in orthogonalize_probes(probe, Array2(overall_rho),
                                         locals.normalize.val) :
              /\ hist' = [hist EXCEPT
                             !.sqrt_args = @ \cup At("orthogonalize_probes", r.sqrt_args),
                             !.eigs = @ \cup At("orthogonalize_probes", r.eig)]
              /\ IF r.raised
                 THEN Raise("tidy_probes") /\ UNCHANGED locals
                 ELSE /\ HasSqrt(normalization)
                      /\ locals' =
                           [locals EXCEPT
                              !.A = Val(r.A),
                              !.new_rhos =
                                 Val(Tab([n \in 1..Len(rhos) |->
                                            Scale(CInv(normalization),
                                                  MatMul(Transpose(r.A),
                                                         MatMul(rhos[n], Conj(r.A))))],
                                         Len(rhos))),
                              !.ortho_probes =
                                 Val(ScaleProbes(Sqrt(normalization), r.ortho_probes))]
                      /\ Advance("tidy_probes")
    /\ UNCHANGED <<model, params>>

\* lines 487-506
TidyLoop ==
    /\ pc = "tidy_loop"
    /\ LET dm_rank == weights.shape[2]
           new_rhos == locals.new_rhos.val
           N == Len(new_rhos)
           S == [n \in 1..N |-> tidy_shot(new_rhos[n], dm_rank)]
       IN  IF \E n \in 1..N : EighRaises(new_rhos[n])
           THEN Raise("tidy_probes") /\ UNCHANGED <<locals, hist>>
           ELSE \E f \in { g \in [1..N -> UNION { S[n] : n \in 1..N }] :
                           \A n \in 1..N : g[n] \in S[n] } :
                   /\ locals' = [locals EXCEPT
                                    !.new_Ws = Val(Tab([n \in 1..N |-> f[n].W], N))]
                   /\ hist' = [hist EXCEPT
                         !.sqrt_args = @ \cup
                            UNION { At("tidy_probes", f[n].sqrt_args) : n \in 1..N },
                         !.eigs = @ \cup UNION { At("tidy_probes", f[n].eig) : n \in 1..N }]
                   /\ Advance("tidy_probes")
    /\ UNCHANGED <<model, params>>

\* lines 508-509
TidyWriteWeights ==
    /\ pc = "tidy_write_weights"
    /\ weights' = Array3(locals.new_Ws.val)
    /\ Advance("tidy_probes")
    /\ UNCHANGED <<model, probe, obj, background, translation_offsets, locals, hist>>

\* lines 511-512
TidyWriteProbe ==
    /\ pc = "tidy_write_probe"
    /\ probe' = locals.ortho_probes.val
    /\ Advance("tidy_probes")
    /\ UNCHANGED <<model, obj, weights, background, translation_offsets, locals, hist>>

\* analysis.orthogonalize_probes called directly, keep_transform=True
OrthogonalizeCall(probes, density_matrix, normalize) ==
    /\ pc = "idle"
    /\ hist.calls < MaxCalls
    /\ \E r \in orthogonalize_probes(probes, density_matrix, normalize) :
          /\ hist' = [hist EXCEPT !.calls = @ + 1,
                         !.old = Snapshot, !.density = density_matrix,
                         !.sqrt_args = @ \cup At("orthogonalize_probes", r.sqrt_args),
                         !.eigs = @ \cup At("orthogonalize_probes", r.eig)]
          /\ locals' = IF r.raised THEN NoLocals
                       ELSE [NoLocals EXCEPT !.normalize = Val(normalize),
                                             !.ortho_probes = Val(r.ortho_probes),
                                             !.A = Val(r.A)]
          /\ op' = <<"orthogonalize_probes", IF r.raised THEN "raised" ELSE "returned">>
    /\ UNCHANGED <<model, params, pc>>

-----------------------------------------------------------------------------
(* The models tidy_probes is run on *)

Im(n) == Cx(0, n, 1)
Fifth(a, b) == Cx(a, b, 5)

\* stacks of two probe modes on a 1 x 2 pixel grid
ProbeInputs ==
    { << <<<<Re(5), Zero>>>>, <<<<Zero, Re(5)>>>> >>,
      << <<<<Re(6), Re(4)>>>>, <<<<Re(8), Re(-3)>>>> >>,
      << <<<<Re(3), Im(4)>>>>, <<<<Im(4), Re(3)>>>> >>,
      << <<<<Re(3), Zero>>>>, <<<<Re(4), Zero>>>> >>,
      << <<<<NaN, Zero>>>>, <<<<Zero, Re(5)>>>> >> }

\* weight matrices of one shot, of shape 1 x 2 and 2 x 2
RankOne ==
    { << <<One, Zero>> >>,
      << <<Fifth(3, 0), Fifth(4, 0)>> >>,
      << <<Fifth(3, 0), Fifth(0, 4)>> >> }

W71 == << <<Fifth(21, 0), Fifth(0, 28)>>, <<Fifth(0, 4), Fifth(3, 0)>> >>
W17 == << <<Fifth(3, 0), Fifth(0, 4)>>, <<Fifth(0, 28), Fifth(21, 0)>> >>

RankTwo ==
    { << <<Re(2), Zero>>, <<Zero, One>> >>,
      << <<Re(2), Zero>>, <<Zero, Zero>> >>,
      << <<NaN, Zero>>, <<Zero, One>> >> }

\* a weight matrix of shape 3 x 2: more rows than there are probe modes,
\* which the constructor stores as it does any other (lines 79-91)
RankThree ==
    { << <<Re(2), Zero>>, <<Zero, One>>, <<Zero, Zero>> >> }

\* the same weights for each of N shots
Repeat(W, N) == Tab([n \in 1..N |-> W], N)

\* self.weights: None, one scalar per shot, or one matrix per shot
WeightInputs ==
    { None }
    \cup { Ones(<<N>>) : N \in 1..MaxShots }
    \cup { Array3(Repeat(W, N)) : W \in RankOne \cup RankTwo \cup RankThree,
                                  N \in 1..MaxShots }
    \cup { Array3(<<W71, W17>>), Array3(<<W17, W71>>) }

\* density matrices handed to orthogonalize_probes directly
DensityInputs ==
    { None,
      Array2(<< <<Re(4), Zero>>, <<Zero, One>> >>),
      Array2(<< <<Re(-1), Zero>>, <<Zero, Re(4)>> >>),
      Array2(<< <<Fifth(4, 0), Fifth(12, 0)>>, <<Fifth(12, 0), Fifth(11, 0)>> >>),
      Array2(<< <<Re(9), Im(-12)>>, <<Im(12), Re(16)>> >>),
      Array2(<< <<NaN, Zero>>, <<Zero, One>> >>) }

NormalizationInputs == { One, Re(4), Zero }

NoHist ==
    [calls |-> 0, old |-> None, density |-> None, sqrt_args |-> {}, eigs |-> {},
     args |-> None, error |-> None, steps |-> 0, losses |-> {}, given |-> None]

InitTidy ==
    /\ model = [cls |-> "FancyPtycho"]
    /\ probe \in ProbeInputs
    /\ weights \in WeightInputs
    /\ obj = Array2(<< <<One, Im(1)>> >>)
    /\ background = Array2(<< <<Zero, Zero>> >>)
    /\ translation_offsets = None
    /\ pc = "idle"
    /\ op = <<"__init__", "returned">>
    /\ locals = NoLocals
    /\ hist = NoHist

NextTidy ==
    \/ \E normalization \in NormalizationInputs, normalize \in BOOLEAN :
          TidyCall(normalization, normalize)
    \/ TidyIncoherent
    \/ TidyOrtho
    \/ TidyLoop
    \/ TidyWriteWeights
    \/ TidyWriteProbe
    \/ \E density_matrix \in DensityInputs, normalize \in BOOLEAN :
          OrthogonalizeCall(probe, density_matrix, normalize)

SpecTidy == InitTidy /\ [][NextTidy]_vars

-----------------------------------------------------------------------------
(* Strings, as sequences of characters: str.lower and str.strip *)

UpperCase ==
    <<"A", "B", "C", "D", "E", "F", "G", "H", "I", "J", "K", "L", "M",
      "N", "O", "P", "Q", "R", "S", "T", "U", "V", "W", "X", "Y", "Z">>
LowerCase ==
    <<"a", "b", "c", "d", "e", "f", "g", "h", "i", "j", "k", "l", "m",
      "n", "o", "p", "q", "r", "s", "t", "u", "v", "w", "x", "y", "z">>

lower_char(c) ==
    IF \E i \in 1..Len(UpperCase) : UpperCase[i] = c
    THEN LowerCase[CHOOSE i \in 1..Len(UpperCase) : UpperCase[i] = c]
    ELSE c

lower(str) == Tab([i \in 1..Len(str) |-> lower_char(str[i])], Len(str))

Whitespace == {" ", "\t", "\n"}

RECURSIVE lstrip(_)
lstrip(str) == IF Len(str) > 0 /\ Head(str) \in Whitespace THEN lstrip(Tail(str)) ELSE str

RECURSIVE rstrip(_)
rstrip(str) ==
    IF Len(str) > 0 /\ str[Len(str)] \in Whitespace
    THEN rstrip(SubSeq(str, 1, Len(str) - 1))
    ELSE str

strip(str) == rstrip(lstrip(str))

-----------------------------------------------------------------------------
(* FancyPtycho.__init__ and FancyPtycho.from_dataset *)

amplitude_mse_1 == <<"a", "m", "p", "l", "i", "t", "u", "d", "e", " ", "m", "s", "e">>
amplitude_mse_2 == <<"a", "m", "p", "l", "i", "t", "u", "d", "e", "_", "m", "s", "e">>
poisson_nll_1 == <<"p", "o", "i", "s", "s", "o", "n", " ", "n", "l", "l">>
poisson_nll_2 == <<"p", "o", "i", "s", "s", "o", "n", "_", "n", "l", "l">>

\* A faulty variant: an unknown name falls back to the default loss
select_loss_default(loss) ==
    IF strip(lower(loss)) = poisson_nll_1 \/ strip(lower(loss)) = poisson_nll_2
    THEN "poisson_nll"
    ELSE "amplitude_mse"

\* lines 117-125: the loss the name selects, or KeyError
select_loss(loss) ==
    IF strip(lower(loss)) = amplitude_mse_1 \/ strip(lower(loss)) = amplitude_mse_2
    THEN "amplitude_mse"
    ELSE IF strip(lower(loss)) = poisson_nll_1 \/ strip(lower(loss)) = poisson_nll_2
         THEN "poisson_nll"
         ELSE "KeyError"

\* t.max(t.abs(X)) of a matrix X whose magnitudes are rational
AbsVal(x) == Sqrt(AbsSq(x))
MaxAbs(X) ==
    LET S == { AbsVal(X[i][j]) : i \in 1..Len(X), j \in 1..Len(X[1]) }
    IN  CHOOSE m \in S : \A y \in S : RLeq(y, m)

NoModel == [cls |-> "none"]

\* Python's a[start:stop] on an axis of length n: a negative bound counts from
\* the end and every bound is clipped to 0..n
Clip(bound, n) ==
    IF bound < 0 THEN (IF bound + n < 0 THEN 0 ELSE bound + n)
    ELSE IF bound > n THEN n ELSE bound
Taken(start, stop, n) ==
    IF Clip(stop, n) > Clip(start, n) THEN Clip(stop, n) - Clip(start, n) ELSE 0

\* the shape of X[detector_slice] for a detector slice
\* [rows |-> <<r0, r1>>, cols |-> <<c0, c1>>], a tuple of two slices
SlicedShape(sh, detector_slice) ==
    <<Taken(detector_slice.rows[1], detector_slice.rows[2], sh[1]),
      Taken(detector_slice.cols[1], detector_slice.cols[2], sh[2])>> \o SubSeq(sh, 3, Len(sh))

\* the shape of X[0]
FirstShape(X) == Tail(X.shape)

\* lines 68-75 (and time_resolved_rpi.py lines 71-78): 1e-6 on the shape of
\* self.probe[0], cut by the detector slice when there is one; indexing a
\* 1-D tensor with two slices raises IndexError
default_background(probe_, detector_slice) ==
    IF detector_slice = None
    THEN [raised |-> FALSE, error |-> "",
          value |-> BMul(Scalar(Cx(1, 0, 1000000)), Ones(FirstShape(probe_)))]
    ELSE IF Len(FirstShape(probe_)) < 2
         THEN [raised |-> TRUE, error |-> "IndexError: too many indices", value |-> None]
         ELSE [raised |-> FALSE, error |-> "",
               value |-> BMul(Scalar(Cx(1, 0, 1000000)),
                              Ones(SlicedShape(FirstShape(probe_), detector_slice)))]

\* The attributes __init__ sets, or the error it raises (lines 58-125)
fancy_init(probe_guess, obj_guess, background_arg, translation_offsets_arg, weights_arg, translation_scale, probe_support_arg, loss) ==
    LET probe_norm == MaxAbs(probe_guess[1])
        shape == <<Len(probe_guess[1]), Len(probe_guess[1][1])>>
    IN  [raised |-> select_loss(loss) = "KeyError",
         error |-> IF select_loss(loss) = "KeyError"
                   THEN "KeyError: Specified loss function not supported"
                   ELSE "",
         probe |-> ScaleProbes(CInv(probe_norm), probe_guess),
         obj |-> obj_guess,
         background |-> IF background_arg = None
                        THEN default_background(Array3(probe_guess), None).value
                        ELSE background_arg,
         weights |-> weights_arg,
         translation_offsets |->
            IF translation_offsets_arg = None THEN None
            ELSE BMul(translation_offsets_arg, Scalar(CInv(Re(translation_scale)))),
         model |-> [cls |-> "FancyPtycho",
                    probe_norm |-> probe_norm,
                    translation_scale |-> translation_scale,
                    min_translation |-> Array1(<<Re(-3), Re(-1)>>),
                    probe_support |-> IF probe_support_arg = None THEN Ones(shape)
                                      ELSE probe_support_arg,
                    loss |-> select_loss(loss)]]

\* __init__ has run with result r: the model exists only if it did not raise
Constructed(name, r) ==
    /\ pc' = pc
    /\ op' = <<name, IF r.raised THEN "raised" ELSE "returned">>
    /\ locals' = NoLocals
    /\ IF r.raised
       THEN UNCHANGED <<model, params>>
       ELSE /\ model' = r.model
            /\ probe' = r.probe
            /\ obj' = r.obj
            /\ background' = r.background
            /\ weights' = r.weights
            /\ translation_offsets' = r.translation_offsets

\* FancyPtycho(..., probe_guess, obj_guess, weights=weights_arg, loss=loss)
Construct(probe_guess, obj_guess, weights_arg, loss) ==
    /\ pc = "idle"
    /\ op = <<"start", "returned">>
    /\ model = NoModel
    /\ LET r == fancy_init(probe_guess, obj_guess, None, None, weights_arg, 1, None, loss)
       IN  /\ Constructed("__init__", r)
           /\ hist' = [hist EXCEPT
                          !.args = [probe_guess |-> probe_guess, weights |-> weights_arg,
                                    loss |-> loss],
                          !.error = Val(r.error)]

\* A faulty variant: the weight matrices are filled with ones
initial_weights_filled(N, n_modes, dm_rank) ==
    IF dm_rank # None /\ dm_rank.val # 0
    THEN IF dm_rank.val > n_modes
         THEN [raised |-> TRUE,
               error |-> "KeyError: Density matrix rank cannot be greater than the number of modes",
               Ws |-> None]
         ELSE LET rank == IF dm_rank.val = -1 THEN n_modes ELSE dm_rank.val
              IN  IF rank < 0
                  THEN [raised |-> TRUE, error |-> "RuntimeError: negative dimension",
                        Ws |-> None]
                  ELSE [raised |-> FALSE, error |-> "", Ws |-> Ones(<<N, rank, n_modes>>)]
    ELSE [raised |-> FALSE, error |-> "", Ws |-> Ones(<<N>>)]

\* lines 209-226: the weights from_dataset builds for N shots, or the error
initial_weights(N, n_modes, dm_rank) ==
    IF dm_rank # None /\ dm_rank.val # 0
    THEN IF dm_rank.val > n_modes
         THEN [raised |-> TRUE,
               error |-> "KeyError: Density matrix rank cannot be greater than the number of modes",
               Ws |-> None]
         ELSE LET rank == IF dm_rank.val = -1 THEN n_modes ELSE dm_rank.val
                  F(ix) == IF ix[2] = ix[3] THEN One ELSE Zero
              IN  IF rank < 0
                  THEN [raised |-> TRUE, error |-> "RuntimeError: negative dimension",
                        Ws |-> None]
                  ELSE [raised |-> FALSE, error |-> "", Ws |-> Array(<<N, rank, n_modes>>, [ix \in Seq(Nat) |-> F(ix)])]
    ELSE [raised |-> FALSE, error |-> "", Ws |-> Ones(<<N>>)]

\* The probe from_dataset starts from, lines 198-200: the initial guess as
\* the first mode and range(n_modes - 1) weak modes, 0.01 * max|probe| * rand;
\* range of a number below 1 is empty
initial_probe(guess, n_modes, rand) ==
    Tab([k \in 1..(IF n_modes < 1 THEN 1 ELSE n_modes) |->
            IF k = 1 THEN guess
            ELSE Scale(CMul(Cx(1, 0, 100), MaxAbs(guess)), rand)],
        IF n_modes < 1 THEN 1 ELSE n_modes)

\* FancyPtycho.from_dataset(dataset, n_modes=n_modes, dm_rank=dm_rank, loss=loss)
\* for a dataset of N patterns
FromDataset(N, n_modes, dm_rank, loss) ==
    /\ pc = "idle"
    /\ op = <<"start", "returned">>
    /\ model = NoModel
    /\ LET w == initial_weights(N, n_modes, dm_rank)
           r == fancy_init(
                    initial_probe(<< <<Re(2), One>> >>, n_modes, << <<One, Fifth(3, 0)>> >>),
                    Array2(<< <<One, One, One>> >>), None,
                    Array(<<N, 2>>, [ix \in Seq(Nat) |-> Zero]), w.Ws, 1, None, loss)
       IN  /\ hist' = [hist EXCEPT
                          !.args = [N |-> N, n_modes |-> n_modes, dm_rank |-> dm_rank,
                                    loss |-> loss],
                          !.error = Val(IF w.raised THEN w.error ELSE r.error)]
           /\ IF w.raised
              THEN /\ op' = <<"from_dataset", "raised">>
                   /\ locals' = NoLocals
                   /\ UNCHANGED <<model, params, pc>>
              ELSE Constructed("from_dataset", r)

\* the loss names a caller passes
LossInputs ==
    { <<"a", "m", "p", "l", "i", "t", "u", "d", "e", " ", "m", "s", "e">>,
      <<"a", "m", "p", "l", "i", "t", "u", "d", "e", "_", "m", "s", "e">>,
      <<"p", "o", "i", "s", "s", "o", "n", " ", "n", "l", "l">>,
      <<"p", "o", "i", "s", "s", "o", "n", "_", "n", "l", "l">>,
      <<"A", "m", "p", "l", "i", "t", "u", "d", "e", " ", "M", "S", "E">>,
      <<" ", "P", "o", "i", "s", "s", "o", "n", "_", "N", "L", "L", "\n">>,
      <<"\t", "A", "M", "P", "L", "I", "T", "U", "D", "E", "_", "M", "S", "E">>,
      <<"a", "m", "p", "l", "i", "t", "u", "d", "e", " ", " ", "m", "s", "e">>,
      <<"a", "m", "p", "l", "i", "t", "u", "d", "e", "m", "s", "e">>,
      <<" ", "M", "S", "E">>,
      <<>>,
      <<"p", "o", "i", "s", "s", "o", "n", "-", "n", "l", "l">>,
      <<"p", "o", "i", "s", "s", "o", "n", " ", "n", "l", "l", ".">> }

\* probe guesses of one and of two modes on a 1 x 2 pixel grid
ProbeGuesses ==
    { << <<<<Re(2), One>>>> >>,
      << <<<<Re(2), One>>>>, <<<<Zero, One>>>> >>,
      << <<<<Re(3), Im(4)>>>>, <<<<Im(4), Re(3)>>>>, <<<<One, One>>>> >> }

\* weights of shape (N, R, K) with ones on the diagonal
DiagonalWeights(N, R, K) == Array(<<N, R, K>>, [ix \in Seq(Nat) |-> IF ix[2] = ix[3] THEN One ELSE Zero])

\* weights handed to the constructor for a probe of K modes
WeightArgs(K) ==
    { None }
    \cup { Ones(<<N>>) : N \in 1..MaxShots }
    \cup { DiagonalWeights(N, R, K) : N \in 1..MaxShots, R \in 1..(MaxModes + 1) }

RankInputs == { None } \cup { Val(r) : r \in (-2)..(MaxModes + 1) }

InitConstruct ==
    /\ model = NoModel
    /\ probe = None
    /\ obj = None
    /\ weights = None
    /\ background = None
    /\ translation_offsets = None
    /\ pc = "idle"
    /\ op = <<"start", "returned">>
    /\ locals = NoLocals
    /\ hist = NoHist

NextConstruct ==
    \/ \E probe_guess \in { g \in ProbeGuesses : Len(g) <= MaxModes },
          loss \in LossInputs :
          \E weights_arg \in WeightArgs(Len(probe_guess)) :
             Construct(probe_guess, Array2(<< <<One, One, One>> >>), weights_arg, loss)
    \/ \E N \in 1..MaxShots, n_modes \in 0..MaxModes, dm_rank \in RankInputs,
          loss \in LossInputs :
          FromDataset(N, n_modes, dm_rank, loss)

SpecConstruct == InitConstruct /\ [][NextConstruct]_vars

-----------------------------------------------------------------------------
(* FancyPtycho.interaction *)

\* a wavefield: the operations that produced it, the plane it lives in, and
\* what interaction computed
Wave(chain, plane, data) == [chain |-> chain, plane |-> plane, data |-> data]

\* lines 260-318
exit_waves(r, index, to_pixel) ==
    IF r.raised THEN [raised |-> TRUE, error |-> r.error, wave |-> None]
    ELSE [raised |-> FALSE, error |-> "",
          wave |-> Wave(<<"interaction">>, "sample",
                        [prs |-> r.prs,
                         pix_trans |-> pix_trans(to_pixel, model.min_translation,
                                                 model.translation_scale,
                                                 translation_offsets, index),
                         scale |-> model.probe_norm])]

fancy_interaction(index, to_pixel) ==
    exit_waves(interaction_mix(probe, model.probe_support, weights, index), index, to_pixel)

\* SimplePtycho.interaction, simple_ptycho.py lines 93-99
simple_interaction(index, to_pixel) ==
    [raised |-> FALSE, error |-> "",
     wave |-> Wave(<<"interaction">>, "sample",
                   [pix_trans |-> BSub(to_pixel, model.min_translation),
                    scale |-> model.probe_norm])]

\* TimeResolvedRPI.interaction, time_resolved_rpi.py lines 179-215: probe i
\* meets object frame i // framerate, and self.obj[obj_frame] raises when the
\* object has no such frame; a batch index repeats the stack
rpi_interaction(index) ==
    [raised |-> \E i \in 1..probe.shape[1] : ((i - 1) \div model.framerate) + 1 > obj.shape[1],
     error |-> IF \E i \in 1..probe.shape[1] :
                     ((i - 1) \div model.framerate) + 1 > obj.shape[1]
               THEN "IndexError: index out of range" ELSE "",
     wave |-> Wave(<<"interaction">>, "sample",
                   [frames |-> Tab([i \in 1..probe.shape[1] |->
                                       ((i - 1) \div model.framerate) + 1],
                                   probe.shape[1]),
                    repeat |-> IF index.batch THEN Len(index.ix) ELSE 0])]

interaction(index, to_pixel) ==
    IF model.cls = "FancyPtycho" THEN fancy_interaction(index, to_pixel)
    ELSE IF model.cls = "SimplePtycho" THEN simple_interaction(index, to_pixel)
         ELSE rpi_interaction(index)

\* interaction was called with these arguments and came back with r
Interacted(index, to_pixel, r) ==
    /\ pc = "idle"
    /\ model # NoModel
    /\ op' = <<"interaction", IF r.raised THEN "raised" ELSE "returned">>
    /\ locals' = [NoLocals EXCEPT !.wave = IF r.raised THEN None ELSE Val(r.wave)]
    /\ hist' = [hist EXCEPT !.args = [index |-> index, to_pixel |-> to_pixel],
                            !.error = Val(r.error)]
    /\ UNCHANGED <<model, params, pc>>

Interaction(index, to_pixel) == Interacted(index, to_pixel, interaction(index, to_pixel))

\* the n-th row of translations, in pixels, that translations_to_pixel gives
PixelRow(n) == <<Re(2 * n - 3), Cx(n, 0, 2)>>

\* the index arguments for a dataset of N shots, with their translations
IndexInputs(N) ==
    { Single(n) : n \in 1..N }
    \cup { Batch(<<n>>) : n \in 1..N }
    \cup { Batch(<<n, m>>) : n \in 1..N, m \in 1..N }

ToPixel(index) ==
    IF index.batch
    THEN Array2(Tab([i \in 1..Len(index.ix) |-> PixelRow(index.ix[i])], Len(index.ix)))
    ELSE Array1(PixelRow(index.ix[1]))

\* weight matrices of R rows for K modes, different for each of two shots
MixInputs(K) ==
    { Array(<<2, R, K>>, [ix \in Seq(Nat) |-> Cx(ix[2] + ix[3] - 2, (ix[1] - 1) * ix[3], 1)]) :
         R \in 1..2 }

InteractWeights(K) == { None, Array1(<<Re(2), Re(3)>>) } \cup MixInputs(K)

SupportInputs == { None, Array2(<< <<One, Zero>> >>), Array2(<< <<Zero, One>> >>) }

OffsetInputs == { None, Array2(<< <<Cx(1, 0, 2), Zero>>, <<Re(-1), Cx(1, 0, 4)>> >>) }

\* the translation_scale a caller passes; x / 0 is inf or nan in float32,
\* both written NaN here
ScaleInputs == { 0, 1, 2, 3 }

\* the model the constructor, having returned r, leaves behind
Built(r) ==
    /\ model = r.model
    /\ probe = r.probe
    /\ obj = r.obj
    /\ background = r.background
    /\ weights = r.weights
    /\ translation_offsets = r.translation_offsets

InitInteract ==
    /\ \E probe_guess \in { g \in ProbeGuesses : Len(g) <= MaxModes },
          probe_support_arg \in SupportInputs, offsets \in OffsetInputs,
          translation_scale \in ScaleInputs :
          \E weights_arg \in InteractWeights(Len(probe_guess)) :
             /\ Built(fancy_init(probe_guess, Array2(<< <<One, Im(1), Re(2)>> >>), None,
                                 offsets, weights_arg, translation_scale,
                                 probe_support_arg, amplitude_mse_1))
             /\ hist = [NoHist EXCEPT !.given = offsets]
    /\ pc = "idle"
    /\ op = <<"__init__", "returned">>
    /\ locals = NoLocals

\* the number of shots of the dataset the model was built for
NShots ==
    IF weights # None THEN weights.shape[1]
    ELSE IF translation_offsets # None THEN translation_offsets.shape[1]
         ELSE MaxShots

-----------------------------------------------------------------------------
(* Propagation, measurement and the read-only operations of the models *)

\* forward_propagator takes the wavefield from the sample plane to the
\* detector plane with far_field, backward_propagator takes it back with
\* inverse_far_field (fancy_ptycho.py lines 321-326)
forward_propagator(w) ==
    Wave(Append(w.chain, "forward_propagator"),
         IF w.plane = "sample" THEN "detector" ELSE "beyond", w.data)
backward_propagator(w) ==
    Wave(Append(w.chain, "backward_propagator"),
         IF w.plane = "detector" THEN "sample" ELSE "beyond", w.data)

\* the intensities the detector would record for the wavefield it is handed
measurement(w) == Wave(Append(w.chain, "measurement"), w.plane, w.data)

\* CDIModel.forward: interaction, then propagation, then measurement
predicted(r) ==
    IF r.raised THEN r
    ELSE [raised |-> FALSE, error |-> "",
          wave |-> measurement(forward_propagator(r.wave))]

forward(index, to_pixel) == predicted(interaction(index, to_pixel))

\* an operation on the wavefield at hand that returns the wavefield f gives
OnWave(name, f) ==
    /\ pc = "idle"
    /\ model # NoModel
    /\ locals.wave # None
    /\ Len(locals.wave.val.chain) < MaxChain
    /\ op' = <<name, "returned">>
    /\ locals' = [NoLocals EXCEPT !.wave = Val(f)]
    /\ hist' = [hist EXCEPT !.args = None, !.error = None]
    /\ UNCHANGED <<model, params, pc>>

ForwardPropagator == OnWave("forward_propagator", forward_propagator(locals.wave.val))
BackwardPropagator == OnWave("backward_propagator", backward_propagator(locals.wave.val))
Measurement == OnWave("measurement", measurement(locals.wave.val))

\* an operation that only returns a value, or raises
Returns(name, raised, result) ==
    /\ pc = "idle"
    /\ op' = <<name, IF raised THEN "raised" ELSE "returned">>
    /\ locals' = [NoLocals EXCEPT !.result = IF raised THEN None ELSE Val(result)]
    /\ hist' = [hist EXCEPT !.args = None, !.error = None]
    /\ UNCHANGED <<model, params, pc>>

\* fancy_ptycho.py lines 435-444; without weights self.weights.dim() raises
GetRhos ==
    /\ model.cls = "FancyPtycho"
    /\ Returns("get_rhos", weights = None,
               [rhos |-> IF weights = None THEN <<>> ELSE get_rhos(weights, Len(probe))])

\* fancy_ptycho.py lines 421-432: the dataset's translations, plus the
\* recovered offsets (in pixels: translation_offsets * translation_scale)
corrected_translations ==
    [translations |-> "dataset.translations",
     offset |-> IF translation_offsets = None THEN None
                ELSE BMul(translation_offsets, Scalar(Re(model.translation_scale)))]

CorrectedTranslations ==
    /\ model.cls = "FancyPtycho"
    /\ Returns("corrected_translations", FALSE, corrected_translations)

\* interaction and corrected_translations on a FancyPtycho model
NextInteract ==
    \/ \E index \in IndexInputs(NShots) : Interaction(index, ToPixel(index))
    \/ CorrectedTranslations

SpecInteract == InitInteract /\ [][NextInteract]_vars

\* seq[start : stop] for 0 <= start <= stop, clipped to the length of seq
Slice(seq, start, stop) ==
    SubSeq(seq, Clip(start, Len(seq)) + 1, Clip(stop, Len(seq)))

\* A faulty variant: every chunk after the first starts one entry early
ChunksOverlapping(seq, n, width) ==
    IF width < 1 THEN <<>>
    ELSE Tab([c \in 1..((n + width - 1) \div width) |->
                 Slice(seq, (c - 1) * width - (IF c > 1 THEN 1 ELSE 0), c * width)],
             (n + width - 1) \div width)

\* [seq[i : i + width] for i in range(0, n, width)]; range is empty for a
\* negative step, and a step of 0 is an error of range that sim_to_dataset meets
Chunks(seq, n, width) ==
    IF width < 1 THEN <<>>
    ELSE Tab([c \in 1..((n + width - 1) \div width) |->
                 Slice(seq, (c - 1) * width, c * width)],
             (n + width - 1) \div width)

\* fancy_ptycho.py lines 368-418 and simple_ptycho.py lines 139-165: the
\* simulated patterns of every chunk; TimeResolvedRPI raises (line 270)
simulated(index_chunks, translation_chunks, sims) ==
    [raised |-> \E c \in 1..Len(sims) : sims[c].raised,
     data |-> Tab([c \in 1..Len(sims) |->
                      [index |-> index_chunks[c],
                       translations |-> translation_chunks[c],
                       wave |-> IF sims[c].raised THEN None ELSE Val(sims[c].wave)]],
                  Len(sims))]

\* forward(idx, trans) for idx, trans in zip(index_chunks, translation_chunks)
simulate(index_chunks, translation_chunks) ==
    LET n == IF Len(index_chunks) < Len(translation_chunks)
             THEN Len(index_chunks) ELSE Len(translation_chunks)
    IN  simulated(index_chunks, translation_chunks,
                  Tab([c \in 1..n |-> forward(Batch(index_chunks[c]),
                                              Array2(translation_chunks[c]))], n))

\* range(0, len(indices), 0) raises ValueError, and t.cat of an empty list of
\* chunks raises RuntimeError
sim_to_dataset(indices, translations, calculation_width) ==
    IF model.cls = "FancyPtycho"
    THEN LET width == IF calculation_width = None THEN Len(indices)
                      ELSE calculation_width.val
             r == simulate(Chunks(indices, Len(indices), width),
                           Chunks(translations, Len(indices), width))
         IN  IF width = 0 \/ Len(r.data) = 0 THEN [raised |-> TRUE, data |-> <<>>] ELSE r
    ELSE simulate(<<indices>>, <<translations>>)

Simulated(indices, translations, calculation_width, r) ==
    /\ pc = "idle"
    /\ op' = <<"sim_to_dataset", IF r.raised THEN "raised" ELSE "returned">>
    /\ locals' = [NoLocals EXCEPT !.result = IF r.raised THEN None ELSE Val([data |-> r.data])]
    /\ hist' = [hist EXCEPT !.args = [indices |-> indices, translations |-> translations,
                                      calculation_width |-> calculation_width],
                            !.error = None]
    /\ UNCHANGED <<model, params, pc>>

SimToDataset(indices, translations, calculation_width) ==
    IF model.cls = "TimeResolvedRPI"
    THEN Simulated(indices, translations, calculation_width, [raised |-> TRUE, data |-> <<>>])
    ELSE /\ model # NoModel
         /\ Simulated(indices, translations, calculation_width,
                      sim_to_dataset(indices, translations, calculation_width))

\* the translations of a list of shots, one row for each
TranslationsOf(indices) == Tab([i \in 1..Len(indices) |-> PixelRow(indices[i])], Len(indices))

\* X ** n, kept as a term
Power(X, n) == [base |-> X, exponent |-> n]

\* A faulty variant: the background parameter is exported as it is stored
save_results_unsquared(full_obj) ==
    IF model.cls = "FancyPtycho"
    THEN [raised |-> weights = None,
          result |-> [basis |-> "probe_basis",
                      translation |-> corrected_translations,
                      probe |-> ScaleProbes(model.probe_norm, probe),
                      obj |-> obj,
                      background |-> Power(background, 1),
                      weights |-> weights]]
    ELSE IF model.cls = "SimplePtycho"
         THEN [raised |-> FALSE,
               result |-> [probe |-> BMul(probe, Scalar(model.probe_norm)), obj |-> obj]]
         ELSE [raised |-> FALSE,
               result |-> [probe_basis |-> "probe_basis", obj_basis |-> "obj_basis",
                           probe |-> probe,
                           obj |-> IF full_obj THEN obj ELSE TakeOne(obj, 1),
                           background |-> Power(background, 1)]]

\* fancy_ptycho.py lines 588-600, simple_ptycho.py lines 181-185 and
\* time_resolved_rpi.py lines 284-301
save_results(full_obj) ==
    IF model.cls = "FancyPtycho"
    THEN [raised |-> weights = None,
          result |-> [basis |-> "probe_basis",
                      translation |-> corrected_translations,
                      probe |-> ScaleProbes(model.probe_norm, probe),
                      obj |-> obj,
                      background |-> Power(background, 2),
                      weights |-> weights]]
    ELSE IF model.cls = "SimplePtycho"
         THEN [raised |-> FALSE,
               result |-> [probe |-> BMul(probe, Scalar(model.probe_norm)), obj |-> obj]]
         ELSE [raised |-> FALSE,
               result |-> [probe_basis |-> "probe_basis", obj_basis |-> "obj_basis",
                           probe |-> probe,
                           obj |-> IF full_obj THEN obj ELSE TakeOne(obj, 1),
                           background |-> Power(background, 2)]]

Saved(r) == Returns("save_results", r.raised, r.result)

SaveResults(full_obj) ==
    /\ model # NoModel
    /\ Saved(save_results(full_obj))

\* the sum of |x|^2 over the entries of an array
RECURSIVE SumAbsSqOver(_, _)
SumAbsSqOver(X, S) ==
    IF S = {} THEN Zero
    ELSE LET ix == CHOOSE y \in S : TRUE
         IN  CAdd(AbsSq(X.at[ix]), SumAbsSqOver(X, S \ {ix}))

SumAbsSq(X) == SumAbsSqOver(X, IndexSet(X.shape))

\* time_resolved_rpi.py lines 241-243
regularizer(factors) ==
    LET first == TakeBatch(obj, <<1>>)
        rest == TakeBatch(obj, Tab([i \in 1..(obj.shape[1] - 1) |-> i + 1], obj.shape[1] - 1))
    IN  CAdd(CMul(factors[1], SumAbsSq(first)), CMul(factors[2], SumAbsSq(rest)))

Regularizer(factors) ==
    /\ model.cls = "TimeResolvedRPI"
    /\ Returns("regularizer", FALSE, [value |-> regularizer(factors)])

-----------------------------------------------------------------------------
(* SimplePtycho and TimeResolvedRPI: construction, random_init, ePIE *)

\* max |x|^2 and max |x| over the entries of an array
MaxAbsSq(X) ==
    LET S == { AbsSq(X.at[ix]) : ix \in IndexSet(X.shape) }
    IN  CHOOSE m \in S : \A y \in S : RLeq(y, m)
MaxAbsOf(X) == Sqrt(MaxAbsSq(X))

\* simple_ptycho.py lines 16-47
simple_init(probe_guess, obj_guess) ==
    [model |-> [cls |-> "SimplePtycho",
                probe_norm |-> MaxAbsOf(probe_guess),
                min_translation |-> Array1(<<Zero, Zero>>),
                mask |-> None],
     probe |-> BMul(probe_guess, Scalar(CInv(MaxAbsOf(probe_guess)))),
     obj |-> obj_guess,
     background |-> None,
     weights |-> None,
     translation_offsets |-> None]

\* A faulty variant: the assignment reaches the stored parameters
obj_setter_stored(stored, value) == value

\* time_resolved_rpi.py lines 19-21: obj is a property that builds a new
\* tensor from obj_real and obj_imag, so `self.obj.data = value` sets the data
\* of that temporary and the stored parameters keep their values
obj_setter(stored, value) == stored

\* time_resolved_rpi.py lines 24-88
rpi_init(probe_arg, obj_guess, framerate, obj_support) ==
    [model |-> [cls |-> "TimeResolvedRPI",
                framerate |-> framerate,
                obj_support |-> IF obj_support = None
                                THEN Ones(<<obj_guess.shape[2], obj_guess.shape[3]>>)
                                ELSE obj_support],
     probe |-> probe_arg,
     obj |-> IF obj_support = None THEN obj_guess
             ELSE obj_setter(obj_guess, BMul(obj_guess, obj_support)),
     background |-> BMul(Scalar(Cx(1, 0, 1000000)),
                         Ones(<<probe_arg.shape[2], probe_arg.shape[3]>>)),
     weights |-> None,
     translation_offsets |-> None]

\* time_resolved_rpi.py lines 171-175; phase is exp(2j * pi * rand)
random_init(pattern_sum, phase) ==
    LET scale == CDiv(pattern_sum, SumAbsSq(probe))
        F(ix) == CMul(scale, phase)
    IN  obj_setter(obj, Array(obj.shape, [ix \in Seq(Nat) |-> F(ix)]))

RandomInit(pattern_sum, phase) ==
    /\ pc = "idle"
    /\ model.cls = "TimeResolvedRPI"
    /\ obj' = random_init(pattern_sum, phase)
    /\ op' = <<"random_init", "returned">>
    /\ locals' = NoLocals
    /\ hist' = [hist EXCEPT !.args = [pattern_sum |-> pattern_sum, phase |-> phase],
                            !.error = None, !.old = Snapshot]
    /\ UNCHANGED <<model, probe, weights, background, translation_offsets, pc>>

\* one step of the optimiser on the parameter X
Stepped(X) == IF X = None THEN None ELSE BMul(X, Scalar(Cx(1, 0, 2)))

\* One iteration of the gradient loop on a batch: the loss compares the
\* patterns with forward(index, translations), and the optimiser moves every
\* learnable parameter of the model
Stepping(index, sim) ==
    /\ pc = "idle"
    /\ model # NoModel
    /\ hist.steps < MaxSteps
    /\ ~sim.raised
    /\ hist' = [hist EXCEPT !.steps = @ + 1, !.args = [index |-> index],
                   !.error = None,
                   !.losses = @ \cup {[by |-> "gradient_step", chain |-> sim.wave.chain,
                                        plane |-> sim.wave.plane]}]
    /\ op' = <<"gradient_step", "returned">>
    /\ locals' = NoLocals
    /\ IF model.cls = "FancyPtycho"
       THEN /\ probe' = ScaleProbes(Cx(1, 0, 2), probe)
            /\ obj' = Stepped(obj)
            /\ weights' = Stepped(weights)
            /\ background' = Stepped(background)
            /\ translation_offsets' = Stepped(translation_offsets)
       ELSE IF model.cls = "SimplePtycho"
            THEN /\ probe' = Stepped(probe)
                 /\ obj' = Stepped(obj)
                 /\ UNCHANGED <<weights, background, translation_offsets>>
            ELSE /\ obj' = Stepped(obj)
                 /\ UNCHANGED <<probe, weights, background, translation_offsets>>
    /\ UNCHANGED <<model, pc>>

GradientStep(index) == Stepping(index, forward(index, ToPixel(index)))

\* torch.round of a real number: halves go to the even neighbour
Round(x) ==
    LET q == x[1] \div x[3]
        r == x[1] % x[3]
    IN  IF 2 * r < x[3] THEN q
        ELSE IF 2 * r > x[3] THEN q + 1
             ELSE IF q % 2 = 0 THEN q ELSE q + 1

BConj(X) == LET F(ix) == CConj(X.at[ix]) IN Array(X.shape, [ix \in Seq(Nat) |-> F(ix)])

\* object[translation]: the window of the probe's shape at the pixel offset c
Window(object, c, shape) ==
    LET F(ix) == object.at[<<ix[1] + c[1], ix[2] + c[2]>>]
    IN  Array(shape, [ix \in Seq(Nat) |-> F(ix)])

\* simple_ptycho.py lines 205-207
probe_update(delta, probe_, object, c, beta) ==
    BAdd(probe_,
         BMul(BMul(Scalar(CDiv(beta, CMul(model.probe_norm, MaxAbsSq(object)))),
                   BConj(Window(object, c, probe_.shape))),
              delta))

\* simple_ptycho.py lines 209-212
object_update(delta, probe_, object, c, beta) ==
    LET change == BMul(BMul(Scalar(CDiv(beta, CMul(model.probe_norm, MaxAbsSq(probe_)))),
                            BConj(probe_)),
                       delta)
        Inside(ix) == /\ ix[1] - c[1] \in 1..probe_.shape[1]
                      /\ ix[2] - c[2] \in 1..probe_.shape[2]
        F(ix) == IF Inside(ix)
                 THEN CAdd(object.at[ix], change.at[<<ix[1] - c[1], ix[2] - c[2]>>])
                 ELSE object.at[ix]
    IN  Array(object.shape, [ix \in Seq(Nat) |-> F(ix)])

\* the translation of a shot of the dataset, in pixels
ShotPixel(shot) == Array1(<<Cx(1, 0, 4), Cx(4 * shot - 5, 0, 4)>>)

\* ePIE(iterations, dataset) is called: a generator, nothing of it has run yet
EPIECall(iterations) ==
    /\ pc = "idle"
    /\ model.cls = "SimplePtycho"
    /\ hist.calls < MaxCalls
    /\ hist' = [hist EXCEPT !.calls = @ + 1, !.old = Snapshot,
                            !.args = [iterations |-> iterations], !.error = None]
    /\ locals' = [NoLocals EXCEPT
                     !.epie = Val([iterations |-> iterations, it |-> 0,
                                   todo |-> 1..MaxShots, loss |-> <<>>])]
    /\ pc' = "ePIE"
    /\ op' = <<"ePIE", "called">>
    /\ UNCHANGED <<model, params>>

\* lines 219-246: one pass of the inner loop, for the shot the shuffling
\* loader hands out.  delta is exit_wave_corrected - exit_wave, which the
\* modulus projection onto the shot's pattern determines.
\* the pixel offset of the window of a shot: t.round of the translation
object_slice(shifted) == <<Round(shifted.at[<<1>>]), Round(shifted.at[<<2>>])>>

\* lines 224-228: exit_wave_corrected
modulus_constraint(exit_wave) ==
    backward_propagator(Wave(Append(forward_propagator(exit_wave).chain, "modulus"),
                             "detector", exit_wave.data))

\* the value of the loss line 246 appends for a shot: every pattern has a
\* value of its own
shot_loss(shot) == Cx(shot, 0, 2)

\* A faulty variant: the object update is computed from the probe the same
\* step has just updated
EPIEStepInTurn(shot, delta, exit_wave, c, sim) ==
    /\ pc = "ePIE"
    /\ locals.epie.val.it < locals.epie.val.iterations
    /\ shot \in locals.epie.val.todo
    /\ probe' = probe_update(delta, probe, obj, c, One)
    /\ obj' = object_update(delta, probe_update(delta, probe, obj, c, One), obj, c, One)
    /\ hist' = [hist EXCEPT
                   !.losses = @ \cup {[by |-> "ePIE", chain |-> sim.chain,
                                        plane |-> sim.plane]}]
    /\ locals' = [locals EXCEPT
                     !.epie = Val([locals.epie.val EXCEPT
                                      !.todo = @ \ {shot},
                                      !.loss = Append(@, [chain |-> sim.chain, shot |-> shot,
                                                           value |-> shot_loss(shot)])]),
                     !.wave = Val(modulus_constraint(exit_wave))]
    /\ op' = <<"ePIE", "running">>
    /\ UNCHANGED <<model, weights, background, translation_offsets, pc>>

EPIEStep(shot, delta, exit_wave, c, sim) ==
    /\ pc = "ePIE"
    /\ locals.epie.val.it < locals.epie.val.iterations
    /\ shot \in locals.epie.val.todo
    /\ probe' = probe_update(delta, probe, obj, c, One)
    /\ obj' = object_update(delta, probe, obj, c, One)
    /\ hist' = [hist EXCEPT
                   !.losses = @ \cup {[by |-> "ePIE", chain |-> sim.chain,
                                        plane |-> sim.plane]}]
    /\ locals' = [locals EXCEPT
                     !.epie = Val([locals.epie.val EXCEPT
                                      !.todo = @ \ {shot},
                                      !.loss = Append(@, [chain |-> sim.chain, shot |-> shot,
                                                           value |-> shot_loss(shot)])]),
                     !.wave = Val(modulus_constraint(exit_wave))]
    /\ op' = <<"ePIE", "running">>
    /\ UNCHANGED <<model, weights, background, translation_offsets, pc>>

\* line 246: the loss of the shot
epie_loss(exit_wave) == measurement(exit_wave)

EPIEShot(shot, delta) ==
    EPIEStep(shot, delta, interaction(Batch(<<shot>>), ShotPixel(shot)).wave,
             object_slice(BSub(ShotPixel(shot), model.min_translation)),
             epie_loss(interaction(Batch(<<shot>>), ShotPixel(shot)).wave))

\* A faulty variant: the loss of the last shot is yielded
epie_last(loss) ==
    IF Len(loss) = 0 THEN NaN ELSE loss[Len(loss)].value

\* line 248: t.mean(t.Tensor(loss)); the mean of no values is nan
epie_mean(loss) ==
    IF Len(loss) = 0 THEN NaN
    ELSE CDiv(CSum(Tab([n \in 1..Len(loss) |-> loss[n].value], Len(loss))), Re(Len(loss)))

\* line 248: every shot of the iteration is done, its mean loss is yielded
EPIEYield ==
    /\ pc = "ePIE"
    /\ locals.epie.val.it < locals.epie.val.iterations
    /\ locals.epie.val.todo = {}
    /\ locals' = [locals EXCEPT
                     !.epie = Val([locals.epie.val EXCEPT !.it = @ + 1, !.todo = 1..MaxShots,
                                                          !.loss = <<>>]),
                     !.result = Val([it |-> locals.epie.val.it,
                                     loss |-> epie_mean(locals.epie.val.loss),
                                     losses |-> Len(locals.epie.val.loss)])]
    /\ op' = <<"ePIE", "yielded">>
    /\ UNCHANGED <<model, params, pc, hist>>

\* the iterations are used up: the generator ends
EPIEReturn ==
    /\ pc = "ePIE"
    /\ locals.epie.val.it = locals.epie.val.iterations
    /\ pc' = "idle"
    /\ op' = <<"ePIE", "returned">>
    /\ UNCHANGED <<model, params, locals, hist>>

-----------------------------------------------------------------------------
(* A reconstruction: any of the three models, and every operation on it *)

\* recovered translation offsets for N shots
Offsets(N) == Array(<<N, 2>>, [ix \in Seq(Nat) |-> Cx(ix[1] - ix[2], 0, 2 * ix[2])])

ReconWeights ==
    { None, Ones(<<MaxShots>>),
      Array3(Repeat(<< <<Re(2), Zero>>, <<Zero, One>> >>, MaxShots)) }

\* exit_wave_corrected - exit_wave for a pattern that agrees with the model
\* and for one that does not
DeltaInputs == { Array2(<< <<Zero, Zero>> >>), Array2(<< <<One, Im(-1)>> >>) }

Fresh ==
    /\ pc = "idle"
    /\ op = <<"__init__", "returned">>
    /\ locals = NoLocals
    /\ hist = NoHist

InitFancy ==
    \E weights_arg \in ReconWeights :
       Built(fancy_init(<< <<<<Re(5), Zero>>>>, <<<<Zero, Re(5)>>>> >>,
                        Array2(<< <<One, Im(1), Re(2)>> >>), None,
                        Offsets(MaxShots), weights_arg, 2, None, amplitude_mse_1))

InitSimple ==
    Built(simple_init(Array2(<< <<Re(2), Im(1)>> >>),
                      Array(<<1, MaxShots + 1>>, [ix \in Seq(Nat) |-> Cx(ix[2], 0, 1)])))

InitRPI ==
    \E obj_support \in { None, Array2(<< <<One, Zero>> >>) } :
       Built(rpi_init(Array3(<< <<<<Re(3), Zero>>>>, <<<<Zero, Re(4)>>>> >>),
                      Array3(<< <<<<One, Im(1)>>>>, <<<<Re(2), One>>>> >>),
                      1, obj_support))

InitRecon == Fresh /\ (InitFancy \/ InitSimple \/ InitRPI)

NextRecon ==
    \/ \E index \in { Batch(<<1>>), Batch(<<MaxShots, 1>>) } : GradientStep(index)
    \/ \E index \in { Single(1), Batch(<<MaxShots, 1>>) } : Interaction(index, ToPixel(index))
    \/ ForwardPropagator
    \/ BackwardPropagator
    \/ Measurement
    \/ GetRhos
    \/ CorrectedTranslations
    \/ \E calculation_width \in { None, Val(1) } :
          SimToDataset(<<1, MaxShots>>, TranslationsOf(<<1, MaxShots>>), calculation_width)
    \/ \E full_obj \in BOOLEAN : SaveResults(full_obj)
    \/ Regularizer(<<One, Re(2)>>)
    \/ \E phase \in { One, Im(1) } : RandomInit(Re(50), phase)
    \/ \E iterations \in 0..MaxIterations : EPIECall(iterations)
    \/ \E shot \in 1..MaxShots, delta \in DeltaInputs : EPIEShot(shot, delta)
    \/ EPIEYield
    \/ EPIEReturn
    \/ TidyCall(One, FALSE)
    \/ TidyIncoherent
    \/ TidyOrtho
    \/ TidyLoop
    \/ TidyWriteWeights
    \/ TidyWriteProbe

SpecRecon == InitRecon /\ [][NextRecon]_vars

\* the patterns of a dataset the reconstruction converges on: only the
\* first two patterns it meets can disagree with the model
EpieDeltas == DeltaInputs \cup { Array2(<< <<Re(2), Zero>> >>) }
Converging ==
    IF locals.epie # None /\ locals.epie.val.it = 0 /\ Len(locals.epie.val.loss) < 2
    THEN EpieDeltas
    ELSE { Array2(<< <<Zero, Zero>> >>) }

\* ePIE alone on a SimplePtycho model: one generator, run to its end
NextEPIE ==
    \/ \E iterations \in 0..(MaxIterations + 1) : EPIECall(iterations)
    \/ \E shot \in 1..MaxShots, delta \in Converging : EPIEShot(shot, delta)
    \/ EPIEYield
    \/ EPIEReturn

InitEPIE == Fresh /\ InitSimple

SpecEPIE == InitEPIE /\ [][NextEPIE]_vars

-----------------------------------------------------------------------------
(* propagators.py: far_field, inverse_far_field, near_field,                 *)
(* inverse_near_field.  The values of a wavefield are numbers x + y w with   *)
(* x, y exact complex rationals and w = exp(2 pi i / 3), written <<x, y>>,   *)
(* so that the discrete Fourier transforms of lengths 1, 2, 3 and 4 are      *)
(* exact.                                                                    *)

E(x) == <<x, Zero>>
EZero == E(Zero)

EAdd(p, q) == <<CAdd(p[1], q[1]), CAdd(p[2], q[2])>>

\* (x + y w)(u + v w) with w * w = -1 - w
EMul(p, q) ==
    <<CAdd(CMul(p[1], q[1]), CMul(Re(-1), CMul(p[2], q[2]))),
      CAdd(CAdd(CMul(p[1], q[2]), CMul(p[2], q[1])), CMul(Re(-1), CMul(p[2], q[2])))>>

EScale(c, p) == <<CMul(c, p[1]), CMul(c, p[2])>>

RECURSIVE ESumTo(_, _)
ESumTo(f, n) == IF n = 0 THEN EZero ELSE EAdd(ESumTo(f, n - 1), f[n])

\* exp(-2 pi i k / n) for n = 1, 2, 3, 4
Twiddle(n, k) ==
    IF n = 3
    THEN CASE k % 3 = 0 -> E(One)
           [] k % 3 = 1 -> <<Re(-1), Re(-1)>>
           [] k % 3 = 2 -> <<Zero, One>>
    ELSE CASE (4 \div n) * k % 4 = 0 -> E(One)
           [] (4 \div n) * k % 4 = 1 -> E(Cx(0, -1, 1))
           [] (4 \div n) * k % 4 = 2 -> E(Re(-1))
           [] (4 \div n) * k % 4 = 3 -> E(Cx(0, 1, 1))

\* the last two axes of an array are the ones transformed and shifted
Rows(X) == X.shape[Len(X.shape) - 1]
Cols(X) == X.shape[Len(X.shape)]
Lead(ix) == SubSeq(ix, 1, Len(ix) - 2)
Row(ix) == ix[Len(ix) - 1]
Col(ix) == ix[Len(ix)]

\* the transform of the last two axes with the roots exp(-+ 2 pi i k / n)
\* (sign = 1 forward, sign = -1 inverse), not normalised
dft2(X, sign) ==
    LET F(ix) ==
          ESumTo([a \in 1..Rows(X) |->
                    ESumTo([b \in 1..Cols(X) |->
                              EMul(X.at[Lead(ix) \o <<a, b>>],
                                   EMul(Twiddle(Rows(X), sign * (Row(ix) - 1) * (a - 1)
                                                            + Rows(X) * Rows(X)),
                                        Twiddle(Cols(X), sign * (Col(ix) - 1) * (b - 1)
                                                            + Cols(X) * Cols(X))))],
                           Cols(X))],
                 Rows(X))
    IN  Array(X.shape, [ix \in Seq(Nat) |-> F(ix)])

\* t.fft(X, 2) and t.ifft(X, 2): the inverse is normalised by 1 / (N M)
fft(X) == dft2(X, 1)
ScaleAll(c, X) == LET F(ix) == EScale(c, X.at[ix]) IN Array(X.shape, [ix \in Seq(Nat) |-> F(ix)])
ifft(X) == ScaleAll(Cx(1, 0, Rows(X) * Cols(X)), dft2(X, -1))

\* out[ix] = X[ix moved back by `by` places, cyclically] along the last two axes
Roll(X, by_rows, by_cols) ==
    LET F(ix) == X.at[Lead(ix) \o <<((Row(ix) - 1 - by_rows + Rows(X)) % Rows(X)) + 1,
                                    ((Col(ix) - 1 - by_cols + Cols(X)) % Cols(X)) + 1>>]
    IN  Array(X.shape, [ix \in Seq(Nat) |-> F(ix)])

\* the centring shift puts the zero frequency at index n // 2; the un-shift
\* moves it back to index 0
fftshift(X) == Roll(X, Rows(X) \div 2, Cols(X) \div 2)
ifftshift(X) == Roll(X, Rows(X) - Rows(X) \div 2, Cols(X) - Cols(X) \div 2)

\* A faulty variant: the same shift is used to undo the centring
inverse_far_field_shifting(wavefront) == ifft(fftshift(wavefront))

\* propagators.py lines 8-51
far_field(wavefront) == fftshift(fft(wavefront))
inverse_far_field(wavefront) == ifft(ifftshift(wavefront))

\* A tensor of the torch these functions are written for keeps a complex
\* number as a pair (real, imaginary) on a last axis of length 2, and the
\* operators * and ** act on the entries of the pair one by one.
\* x * y on pairs: (re x * re y, im x * im y)
pair_mul(x, y) ==
    IF x[3] = 0 \/ y[3] = 0 THEN NaN ELSE Norm(x[1] * y[1], x[2] * y[2], x[3] * y[3])

\* x ** -1 on pairs: (1 / re x, 1 / im x); 1 / 0 is inf, not finite
pair_inv(x) ==
    IF x[3] = 0 \/ x[1] = 0 \/ x[2] = 0 THEN NaN
    ELSE Norm(x[3] * x[2], x[3] * x[1], x[1] * x[2])

\* X * Y and X ** -1 for tensors of pairs of the same shape
PairMul(X, Y) ==
    LET F(ix) == E(pair_mul(X.at[ix][1], Y.at[ix][1]))
    IN  Array(X.shape, [ix \in Seq(Nat) |-> F(ix)])
PairInv(X) ==
    LET F(ix) == E(pair_inv(X.at[ix][1]))
    IN  Array(X.shape, [ix \in Seq(Nat) |-> F(ix)])

\* propagators.py lines 84-113
near_field(wavefront, angular_spectrum_propagator) ==
    ifft(PairMul(angular_spectrum_propagator, fft(wavefront)))
inverse_near_field(wavefront, angular_spectrum_propagator) ==
    ifft(PairMul(fft(wavefront), PairInv(angular_spectrum_propagator)))

\* the complex product and quotient of two tensors, entry by entry
ComplexMul(X, Y) ==
    LET F(ix) == EMul(X.at[ix], Y.at[ix])
    IN  Array(X.shape, [ix \in Seq(Nat) |-> F(ix)])
ComplexDiv(X, Y) ==
    LET F(ix) == E(CDiv(X.at[ix][1], Y.at[ix][1]))
    IN  Array(X.shape, [ix \in Seq(Nat) |-> F(ix)])

-----------------------------------------------------------------------------
(* propagators.py: get_exit_waves *)

\* t.floor of a real
Floor(x) == x[1] \div x[3]

\* object[r : r + H, c : c + W]
Select(object, r, c, H, W) ==
    LET F(ix) == object.at[<<Clip(r, object.shape[1]) + ix[1],
                             Clip(c, object.shape[2]) + ix[2]>>]
    IN  Array(<<Taken(r, r + H, object.shape[1]), Taken(c, c + W, object.shape[2])>>,
              [ix \in Seq(Nat) |-> F(ix)])

\* a value, or the RuntimeError of shapes that do not broadcast
Fine(X) == [raised |-> FALSE, value |-> X]
Failed == [raised |-> TRUE, value |-> None]
Plus(r, Y) ==
    IF r.raised THEN Failed
    ELSE IF Broadcastable(r.value.shape, Y.shape) THEN Fine(BAdd(r.value, Y)) ELSE Failed
Times(X, r) ==
    IF r.raised THEN Failed
    ELSE IF Broadcastable(X.shape, r.value.shape) THEN Fine(BMul(X, r.value)) ELSE Failed

\* lines 144-159: the four windows, weighted by the sub-pixel part (s0, s1)
selection(object, r, c, H, W, s0, s1) ==
    Plus(Plus(Plus(Fine(BMul(Select(object, r, c, H, W),
                             Scalar(CMul(CAdd(One, CMul(Re(-1), s0)),
                                         CAdd(One, CMul(Re(-1), s1)))))),
                   BMul(Select(object, r, c + 1, H, W),
                        Scalar(CMul(CAdd(One, CMul(Re(-1), s0)), s1)))),
              BMul(Select(object, r + 1, c, H, W),
                   Scalar(CMul(s0, CAdd(One, CMul(Re(-1), s1)))))),
         BMul(Select(object, r + 1, c + 1, H, W), Scalar(CMul(s0, s1))))

\* lines 136-138 and 161 for one translation tr = <<t0, t1>>
exit_wave(probe_, object, tr) ==
    Times(probe_,
          selection(object, Floor(tr[1]), Floor(tr[2]), probe_.shape[1], probe_.shape[2],
                    CAdd(tr[1], Re(-Floor(tr[1]))), CAdd(tr[2], Re(-Floor(tr[2])))))

\* t.stack of the exit waves: they must all have the same shape
stacked(waves) ==
    IF \E n \in 1..Len(waves) : waves[n].raised
    THEN [raised |-> TRUE, error |-> "RuntimeError", waves |-> <<>>]
    ELSE IF \E n \in 1..Len(waves) : waves[n].value.shape # waves[1].value.shape
         THEN [raised |-> TRUE, error |-> "RuntimeError", waves |-> <<>>]
         ELSE [raised |-> FALSE, error |-> "",
               waves |-> Tab([n \in 1..Len(waves) |-> waves[n].value], Len(waves))]

\* propagators.py lines 118-161
get_exit_waves(probe_, object, translations) ==
    stacked(Tab([n \in 1..Len(translations) |-> exit_wave(probe_, object, translations[n])],
                Len(translations)))

-----------------------------------------------------------------------------
(* The functions of propagators.py, each applied to the arguments a caller   *)
(* hands it: hist.args holds the arguments, locals.result what came back     *)

NoArgs ==
    [wavefront |-> None, kernel |-> None, probe |-> None, object |-> None,
     translations |-> None, shape |-> None, spacing |-> None]

\* array shapes with even and odd lengths, and stacks of wavefields
FieldShapes ==
    { <<n, m>> : n \in 1..4, m \in 1..4 } \cup { <<2, 1, 3>>, <<2, 2, 2>> }

\* complex wavefields without symmetry
FieldA(sh) ==
    Array(sh, [ix \in Seq(Nat) |->
                  E(Cx(Row(ix) + 2 * Col(ix) + Len(ix), Row(ix) * Col(ix) - 2 * Len(ix), 1))])
FieldB(sh) ==
    Array(sh, [ix \in Seq(Nat) |-> <<Cx(Col(ix), 1, Len(ix)), Cx(0, Row(ix) - 2, 2)>>])

\* near-field kernels: the kernel of distance zero (1 + 0i everywhere), a
\* constant phase (3 + 4i) / 5, and one that differs from pixel to pixel
KernelInputs(sh) ==
    { Array(sh, [ix \in Seq(Nat) |-> E(One)]),
      Array(sh, [ix \in Seq(Nat) |-> E(Cx(3, 4, 5))]),
      Array(sh, [ix \in Seq(Nat) |-> E(Cx(Row(ix), -Col(ix), 1))]) }

\* the shapes whose transforms stay within the numbers x + 0 w
PairShapes == { sh \in FieldShapes : \A i \in 1..Len(sh) : sh[i] # 3 }

ExitProbes ==
    { Array2(<< <<Re(2)>> >>), Array2(<< <<Re(2), Im(1)>> >>),
      Array2(<< <<One, Im(1), Re(2)>> >>), Array2(<< <<One, Im(1)>>, <<Re(2), Re(3)>> >>) }

ExitObjects ==
    { Array(<<1, 4>>, [ix \in Seq(Nat) |-> Cx(ix[2], 1, 1)]),
      Array(<<3, 4>>, [ix \in Seq(Nat) |-> Cx(ix[2], ix[1], 1)]) }

\* translations in pixels: whole numbers and halves
TranslationInputs ==
    { << <<Re(r), Re(c)>> >> : r \in 0..2, c \in 0..3 }
    \cup { << <<Zero, Cx(1, 0, 2)>> >>, << <<Cx(1, 0, 2), One>> >>,
           << <<Zero, Zero>>, <<Zero, One>> >>, << <<Zero, One>>, <<One, Cx(3, 0, 2)>> >> }

InitOptics ==
    /\ model = NoModel
    /\ probe = None
    /\ obj = None
    /\ weights = None
    /\ background = None
    /\ translation_offsets = None
    /\ pc = "idle"
    /\ op = <<"start", "returned">>
    /\ locals = NoLocals
    /\ \/ \E sh \in FieldShapes : \E W \in { FieldA(sh), FieldB(sh) } :
             hist = [NoHist EXCEPT !.args = [NoArgs EXCEPT !.wavefront = W]]
       \/ \E sh \in PairShapes : \E K \in KernelInputs(sh) :
             hist = [NoHist EXCEPT !.args = [NoArgs EXCEPT !.wavefront = FieldA(sh),
                                                          !.kernel = K]]
       \/ \E P \in ExitProbes, O \in ExitObjects, T \in TranslationInputs :
             hist = [NoHist EXCEPT !.args = [NoArgs EXCEPT !.probe = P, !.object = O,
                                                          !.translations = T]]

\* a function has returned r (or raised), and has written to nothing
Computed(name, raised, r) ==
    /\ op' = <<name, IF raised THEN "raised" ELSE "returned">>
    /\ locals' = [NoLocals EXCEPT !.result = IF raised THEN None ELSE Val(r)]
    /\ UNCHANGED <<model, params, pc, hist>>

FarField ==
    /\ op = <<"start", "returned">>
    /\ hist.args.wavefront # None
    /\ hist.args.kernel = None
    /\ Computed("far_field", FALSE, far_field(hist.args.wavefront))

\* the far field is taken back
InverseFarField ==
    /\ op = <<"far_field", "returned">>
    /\ Computed("inverse_far_field", FALSE, inverse_far_field(locals.result.val))

NearField ==
    /\ op = <<"start", "returned">>
    /\ hist.args.kernel # None
    /\ Computed("near_field", FALSE, near_field(hist.args.wavefront, hist.args.kernel))

\* the near field is taken back with the same kernel
InverseNearField ==
    /\ op = <<"near_field", "returned">>
    /\ Computed("inverse_near_field", FALSE,
                inverse_near_field(locals.result.val, hist.args.kernel))

\* the division alone, for a wavefield that was not propagated
InverseNearFieldOf ==
    /\ op = <<"start", "returned">>
    /\ hist.args.kernel # None
    /\ Computed("inverse_near_field_of", FALSE,
                inverse_near_field(hist.args.wavefront, hist.args.kernel))

ExitWaves(r) == Computed("get_exit_waves", r.raised, r.waves)

GetExitWaves ==
    /\ op = <<"start", "returned">>
    /\ hist.args.probe # None
    /\ ExitWaves(get_exit_waves(hist.args.probe, hist.args.object, hist.args.translations))

NextOptics ==
    \/ FarField
    \/ InverseFarField
    \/ NearField
    \/ InverseNearField
    \/ InverseNearFieldOf
    \/ GetExitWaves

SpecOptics == InitOptics /\ [][NextOptics]_vars

-----------------------------------------------------------------------------
(* the angular spectrum kernel: generate_angular_spectrum_propagator *)

\* fftpack.fftfreq(n, d): the frequencies 0, 1, ..., then the negative ones,
\* in units of 1 / (n d)
fftfreq(n, d) ==
    Tab([k \in 1..n |->
            CDiv(Re(IF k - 1 < ((n - 1) \div 2) + 1 THEN k - 1 ELSE k - 1 - n),
                 CMul(Re(n), d))], n)

\* np.meshgrid(x, y) with its default indexing: both grids have len(y) rows
\* and len(x) columns, the first repeats x along every row and the second
\* repeats y down every column
meshgrid(x, y) ==
    << Array(<<Len(y), Len(x)>>, [ix \in Seq(Nat) |-> x[ix[2]]]),
       Array(<<Len(y), Len(x)>>, [ix \in Seq(Nat) |-> y[ix[1]]]) >>

\* the kernel entry exp(1j sqrt((2 pi / wavelength)^2 - Ki^2 - Kj^2) z) is kept
\* as the squared transverse frequency it is computed from
transverse(Ki, Kj) == [exp_of |-> CAdd(CMul(Ki, Ki), CMul(Kj, Kj))]

generate_angular_spectrum_propagator(shape, spacing) ==
    LET ki == fftfreq(shape[1], spacing[1])
        kj == fftfreq(shape[2], spacing[2])
        K  == meshgrid(ki, kj)
        F(ix) == transverse(K[1].at[ix], K[2].at[ix])
    IN  Array(K[1].shape, [ix \in Seq(Nat) |-> F(ix)])

\* the shape of a product a * b under broadcasting, None if there is none
broadcast(a, b) ==
    IF \A i \in 1..2 : a[i] = b[i] \/ a[i] = 1 \/ b[i] = 1
    THEN Val([i \in 1..2 |-> IF a[i] = 1 THEN b[i] ELSE a[i]])
    ELSE None

\* near_field's product of the kernel with the transform of a wavefield of
\* the shape the kernel was asked for
kernel_times_fft(kernel, shape) ==
    LET sh == broadcast(kernel.shape, shape)
    IN  [raised |-> sh = None, shape |-> IF sh = None THEN None ELSE sh.val]

KernelShapes == { <<n, m>> : n \in 1..4, m \in 1..4 }

\* pixel pitches: equal on both axes, and different
Spacings == { <<One, One>>, <<One, Re(2)>>, <<Re(2), One>>, <<Cx(1, 0, 2), Re(3)>> }

InitKernel ==
    /\ model = NoModel
    /\ probe = None
    /\ obj = None
    /\ weights = None
    /\ background = None
    /\ translation_offsets = None
    /\ pc = "idle"
    /\ op = <<"start", "returned">>
    /\ locals = NoLocals
    /\ \E sh \in KernelShapes, sp \in Spacings :
          hist = [NoHist EXCEPT !.args = [NoArgs EXCEPT !.shape = sh, !.spacing = sp]]

GenerateKernel ==
    /\ op = <<"start", "returned">>
    /\ hist.args.shape # None
    /\ Computed("generate_angular_spectrum_propagator", FALSE,
                generate_angular_spectrum_propagator(hist.args.shape, hist.args.spacing))

Propagated(r) == Computed("near_field", r.raised, r)

\* the kernel is used on a wavefield of the shape it was generated for
NearFieldWith ==
    /\ op = <<"generate_angular_spectrum_propagator", "returned">>
    /\ Propagated(kernel_times_fft(locals.result.val, hist.args.shape))

NextKernel ==
    \/ GenerateKernel
    \/ NearFieldWith

SpecKernel == InitKernel /\ [][NextKernel]_vars

-----------------------------------------------------------------------------
(* sim_to_dataset in chunks *)

\* lists of up to MaxIndices shot numbers, repeats included
MaxIndices == 4

IndexLists ==
    UNION { [1..n -> 1..MaxShots] : n \in 0..MaxIndices }

\* calculation_width: left out, or a width up to one more than the longest list
Widths == { None } \cup { Val(w) : w \in 1..(MaxIndices + 1) }

NextSim ==
    \E indices \in IndexLists, calculation_width \in Widths :
        /\ op = <<"__init__", "returned">>
        /\ SimToDataset(indices, TranslationsOf(indices), calculation_width)

InitSim == Fresh /\ InitFancy

SpecSim == InitSim /\ [][NextSim]_vars

-----------------------------------------------------------------------------
(* from_dataset and the dataset's output configuration *)

\* dataset.get_as(*args, **kwargs): the dataset remembers the arguments as the
\* pair (args, kwargs) that from_dataset reads back as get_as_args[0] and
\* get_as_args[1]
get_as(dataset, args, kwargs) ==
    [dataset EXCEPT !.get_as_args = <<args, kwargs>>]

\* output configurations a dataset is found in: keyword sets are sets of
\* <<name, value>> pairs
GetAsInputs ==
    { << <<>>, {} >>,
      << <<>>, {<<"device", "cpu">>} >>,
      << <<>>, {<<"device", "cuda:0">>} >>,
      << <<"cuda:0">>, {} >>,
      << <<"cpu">>, {} >>,
      << <<>>, {<<"device", "cuda:1">>} >>,
      << <<>>, {<<"device", "cuda:0">>, <<"memory_format", "channels_last">>} >> }

FromDatasetClasses == {"SimplePtycho", "FancyPtycho", "TimeResolvedRPI"}

\* a dataset, and whether reading all of it at once succeeds
InitDataset ==
    /\ model = NoModel
    /\ probe = None
    /\ obj = None
    /\ weights = None
    /\ background = None
    /\ translation_offsets = None
    /\ pc = "idle"
    /\ op = <<"start", "returned">>
    /\ \E g \in GetAsInputs, readable \in BOOLEAN :
          /\ locals = [NoLocals EXCEPT !.dataset = [get_as_args |-> g, readable |-> readable]]
          /\ hist = [NoHist EXCEPT !.given = [get_as_args |-> g]]

\* get_as_args = dataset.get_as_args ; dataset.get_as(device='cpu')
FromDatasetBegin(cls) ==
    /\ pc = "idle"
    /\ op = <<"start", "returned">>
    /\ locals.dataset # None
    /\ pc' = "reading"
    /\ op' = <<"from_dataset", cls>>
    /\ locals' = [locals EXCEPT !.get_as_args = locals.dataset.get_as_args,
                                !.dataset = get_as(locals.dataset, <<>>, {<<"device", "cpu">>})]
    /\ UNCHANGED <<model, params, hist>>

\* ... = dataset[:] ; dataset.get_as(*get_as_args[0], **get_as_args[1])
\* an error of dataset[:] leaves from_dataset at once
FromDatasetRead ==
    /\ pc = "reading"
    /\ IF locals.dataset.readable
       THEN /\ locals' = [locals EXCEPT !.dataset = get_as(locals.dataset, locals.get_as_args[1],
                                                            locals.get_as_args[2])]
            /\ pc' = "building"
            /\ UNCHANGED op
       ELSE /\ pc' = "idle"
            /\ op' = <<"from_dataset", "raised">>
            /\ UNCHANGED locals
    /\ UNCHANGED <<model, params, hist>>

\* the rest of from_dataset: the model is built and returned, or an error of
\* the later steps leaves the method
FromDatasetEnd(raised) ==
    /\ pc = "building"
    /\ pc' = "idle"
    /\ op' = <<"from_dataset", IF raised THEN "raised" ELSE "returned">>
    /\ model' = IF raised THEN model ELSE [cls |-> op[2]]
    /\ UNCHANGED <<params, locals, hist>>

NextDataset ==
    \/ \E cls \in FromDatasetClasses : FromDatasetBegin(cls)
    \/ FromDatasetRead
    \/ \E raised \in BOOLEAN : FromDatasetEnd(raised)

SpecDataset == InitDataset /\ [][NextDataset]_vars

-----------------------------------------------------------------------------
(* measurement: the intensities a detector records for a stack of wavefields *)

\* X[..., r0:r1, c0:c1] for a detector slice [rows |-> <<r0, r1>>, cols |-> <<c0, c1>>]
Crop(X, detector_slice) ==
    IF detector_slice = None THEN X
    ELSE LET F(ix) == X.at[Lead(ix) \o <<detector_slice.rows[1] + Row(ix),
                                         detector_slice.cols[1] + Col(ix)>>]
         IN  Array(Lead(X.shape) \o <<detector_slice.rows[2] - detector_slice.rows[1],
                                      detector_slice.cols[2] - detector_slice.cols[1]>>,
                   [ix \in Seq(Nat) |-> F(ix)])

AbsSqAll(X) == LET F(ix) == AbsSq(X.at[ix]) IN Array(X.shape, [ix \in Seq(Nat) |-> F(ix)])

\* the detector region of every wavefield, then the sum of |.|^2 over the modes
incoherent_sum(wavefields, detector_slice) == SumAxis(AbsSqAll(Crop(wavefields, detector_slice)), 3)

\* min(x, saturation) of reals
ClipAbove(x, saturation) == IF RLeq(x, saturation) THEN x ELSE saturation
Clamp(X, saturation) ==
    IF saturation = None THEN X
    ELSE LET F(ix) == ClipAbove(X.at[ix], saturation.val)
         IN  Array(X.shape, [ix \in Seq(Nat) |-> F(ix)])

\* sum(|mode|^2) + background^2, clipped above the saturation value if one is set
quadratic_background(wavefields, background_, detector_slice, saturation) ==
    Clamp(BAdd(incoherent_sum(wavefields, detector_slice), BMul(background_, background_)),
          saturation)

\* A faulty variant: the saturation value is not handed on
measured_unclipped(wavefields) ==
    quadratic_background(wavefields, background, model.detector_slice, None)

\* fancy_ptycho.py lines 329-336 and time_resolved_rpi.py lines 226-235: the
\* values measurement returns
measured(wavefields) ==
    quadratic_background(wavefields, background, model.detector_slice, model.saturation)

\* detector-plane wavefields of K modes on a 1 x 3 grid, alone and for two shots
WavefieldInputs ==
    { Array(<<K, 1, 3>>, [ix \in Seq(Nat) |-> Cx(ix[1] - ix[3], ix[3] - 1, ix[1])]) :
         K \in 1..MaxModes }
    \cup { Array(<<2, K, 1, 3>>, [ix \in Seq(Nat) |-> Cx(ix[1] * ix[4] - 2, ix[2], 2)]) :
              K \in 1..MaxModes }

DetectorSlices == { None, [rows |-> <<0, 1>>, cols |-> <<1, 3>>] }

\* stored background parameters for a detector region of W pixels: a small
\* floor, a positive field, and fields a gradient step has taken below zero
BackgroundInputs(W) ==
    { Array(<<1, W>>, [ix \in Seq(Nat) |-> Cx(1, 0, 1000)]),
      Array(<<1, W>>, [ix \in Seq(Nat) |-> Cx(ix[2], 0, 2)]),
      Array(<<1, W>>, [ix \in Seq(Nat) |-> Cx(ix[2] - 3, 0, 2)]),
      Array(<<1, W>>, [ix \in Seq(Nat) |-> Re(-2)]) }

SaturationInputs == { None, Val(Re(3)), Val(Cx(1, 0, 4)) }

InitMeasure ==
    /\ \E cls \in {"FancyPtycho", "TimeResolvedRPI"}, saturation \in SaturationInputs,
          detector_slice \in DetectorSlices :
          /\ model = [cls |-> cls, detector_slice |-> detector_slice,
                      saturation |-> saturation]
          /\ background \in BackgroundInputs(IF detector_slice = None THEN 3 ELSE 2)
    /\ probe = None
    /\ obj = None
    /\ weights = None
    /\ translation_offsets = None
    /\ pc = "idle"
    /\ op = <<"__init__", "returned">>
    /\ locals = NoLocals
    /\ hist = NoHist

Measured(wavefields, r) ==
    /\ pc = "idle"
    /\ op' = <<"measurement", "returned">>
    /\ locals' = [NoLocals EXCEPT !.result = Val(r)]
    /\ hist' = [hist EXCEPT !.args = [wavefields |-> wavefields]]
    /\ UNCHANGED <<model, params, pc>>

MeasureField(wavefields) == Measured(wavefields, measured(wavefields))

NextMeasure == \E wavefields \in WavefieldInputs : MeasureField(wavefields)

SpecMeasure == InitMeasure /\ [][NextMeasure]_vars

-----------------------------------------------------------------------------
(* Construction with optional inputs left out: the mask, the background and  *)
(* the detector slice, for probe guesses given as arrays of 2 or 3 axes      *)

\* lines 60-63: the largest magnitude of the first mode of a stack, or of
\* the whole guess when it has no mode axis
probe_norm_of(probe_guess) ==
    IF Len(probe_guess.shape) > 2 THEN MaxAbsOf(TakeOne(probe_guess, 1))
    ELSE MaxAbsOf(probe_guess)

\* what __init__ has made of its arguments when it reaches line 77
initialised(cls, stored_probe, norm, detector_slice, mask, background_arg, b) ==
    [raised |-> background_arg = None /\ b.raised,
     error |-> IF background_arg = None THEN b.error ELSE "",
     model |-> [cls |-> cls, detector_slice |-> detector_slice, mask |-> mask,
                probe_norm |-> norm],
     probe |-> stored_probe,
     obj |-> Array2(<< <<One, One, One, One>> >>),
     background |-> IF background_arg = None THEN b.value ELSE background_arg,
     weights |-> None,
     translation_offsets |-> None]

\* FancyPtycho.__init__, lines 50-77: the probe is stored divided by its norm
fancy_defaults(probe_guess, detector_slice, mask, background_arg) ==
    initialised("FancyPtycho",
                BMul(probe_guess, Scalar(CInv(probe_norm_of(probe_guess)))),
                probe_norm_of(probe_guess), detector_slice, mask, background_arg,
                default_background(probe_guess, detector_slice))

\* TimeResolvedRPI.__init__, time_resolved_rpi.py lines 53-80: the probe is
\* stored as it is given
rpi_defaults(probe_guess, detector_slice, mask, background_arg) ==
    initialised("TimeResolvedRPI", probe_guess, One, detector_slice, mask, background_arg,
                default_background(probe_guess, detector_slice))

ConstructWith(cls, probe_guess, detector_slice, mask, background_arg) ==
    /\ pc = "idle"
    /\ op = <<"start", "returned">>
    /\ model = NoModel
    /\ hist' = [hist EXCEPT !.args = [background |-> background_arg,
                                      detector_slice |-> detector_slice,
                                      mask |-> mask, probe_guess |-> probe_guess]]
    /\ Constructed("__init__",
                   IF cls = "FancyPtycho"
                   THEN fancy_defaults(probe_guess, detector_slice, mask, background_arg)
                   ELSE rpi_defaults(probe_guess, detector_slice, mask, background_arg))

\* probe guesses: stacks of one and two modes, and single 2-D fields
StackGuesses ==
    { Array(<<K, 1, 3>>, [ix \in Seq(Nat) |-> Cx(ix[1] + ix[3], ix[1] - 1, 1)]) :
         K \in 1..MaxModes }
    \cup { Array(<<2, 2, 2>>, [ix \in Seq(Nat) |-> Cx(ix[2], ix[3], ix[1])]) }
FieldGuesses ==
    { Array(<<1, 3>>, [ix \in Seq(Nat) |-> Cx(ix[2], 1, 1)]),
      Array(<<2, 2>>, [ix \in Seq(Nat) |-> Cx(ix[1], ix[2], 1)]),
      Array(<<3, 2>>, [ix \in Seq(Nat) |-> Cx(ix[1], ix[2], 1)]) }

SliceInputs ==
    { None, [rows |-> <<0, 1>>, cols |-> <<1, 3>>], [rows |-> <<0, 2>>, cols |-> <<0, 1>>] }

\* masks and backgrounds a caller supplies, on the last two axes of the guess
MaskInputs(sh) ==
    { None, Array(<<sh[Len(sh) - 1], sh[Len(sh)]>>,
                  [ix \in Seq(Nat) |-> IF ix[2] = 1 THEN One ELSE Zero]) }
SuppliedBackgrounds(sh) ==
    { None, Array(<<sh[Len(sh) - 1], sh[Len(sh)]>>, [ix \in Seq(Nat) |-> Cx(ix[2], 0, 2)]) }

NextDefaults ==
    \E cls \in {"FancyPtycho", "TimeResolvedRPI"},
       probe_guess \in StackGuesses \cup FieldGuesses, detector_slice \in SliceInputs :
       \E mask \in MaskInputs(probe_guess.shape),
          background_arg \in SuppliedBackgrounds(probe_guess.shape) :
          /\ cls = "TimeResolvedRPI" => Len(probe_guess.shape) = 3
          /\ ConstructWith(cls, probe_guess, detector_slice, mask, background_arg)

SpecDefaults == InitConstruct /\ [][NextDefaults]_vars

-----------------------------------------------------------------------------
(* save_results on FancyPtycho models built by the constructor and by        *)
(* from_dataset                                                              *)

\* numpy's X ** n for n = 1, 2, entry by entry
Evaluate(term) ==
    IF term.exponent = 2 THEN BMul(term.base, term.base) ELSE term.base

\* from_dataset, lines 186-189: the background handed to the constructor
dataset_background(dataset) ==
    IF dataset.background # None
    THEN Val(Array(dataset.background.val.shape,
                   [ix \in Seq(Nat) |-> Sqrt(dataset.background.val.at[ix])]))
    ELSE None

\* backgrounds handed to the constructor, on the 1 x 2 detector: any sign
StoredBackgrounds ==
    { Array2(<< <<Cx(1, 0, 2), Cx(-3, 0, 2)>> >>), Array2(<< <<Zero, Re(2)>> >>),
      Array2(<< <<Re(-1), Re(-1)>> >>), Array2(<< <<Cx(1, 0, 1000), Cx(1, 0, 1000)>> >>) }

\* dataset.background: measured intensities
DatasetBackgrounds ==
    { Array2(<< <<Zero, Re(4)>> >>), Array2(<< <<Cx(1, 0, 4), Re(9)>> >>),
      Array2(<< <<One, One>> >>) }

\* the weights of the models: none, one per shot, and a matrix per shot
SaveWeights(K) == { None, Ones(<<MaxShots>>), DiagonalWeights(MaxShots, 1, K) }

InitSave ==
    /\ pc = "idle"
    /\ locals = NoLocals
    /\ \E probe_guess \in ProbeGuesses, translation_scale \in { 1, 2 } :
       \/ \E background_arg \in StoredBackgrounds, weights_arg \in SaveWeights(Len(probe_guess)) :
             /\ op = <<"__init__", "returned">>
             /\ hist = [NoHist EXCEPT !.given = [background |-> background_arg,
                                                 by |-> "__init__",
                                                 probe_guess |-> probe_guess]]
             /\ Built(fancy_init(probe_guess, Array2(<< <<One, Im(1), Re(2)>> >>),
                                 background_arg, Offsets(MaxShots), weights_arg,
                                 translation_scale, None, amplitude_mse_1))
       \/ \E background_ \in DatasetBackgrounds,
             weights_arg \in SaveWeights(Len(probe_guess)) \ { None } :
             /\ op = <<"from_dataset", "returned">>
             /\ hist = [NoHist EXCEPT !.given = [background |-> background_,
                                                 by |-> "from_dataset",
                                                 probe_guess |-> probe_guess]]
             /\ Built(fancy_init(probe_guess, Array2(<< <<One, Im(1), Re(2)>> >>),
                                 dataset_background([background |-> Val(background_)]).val,
                                 Offsets(MaxShots), weights_arg,
                                 translation_scale, None, amplitude_mse_1))

NextSave ==
    \/ SaveResults(FALSE)
    \/ CorrectedTranslations

SpecSave == InitSave /\ [][NextSave]_vars

-----------------------------------------------------------------------------
(* TimeResolvedRPI.from_dataset: the object frames and the object support *)

\* A faulty variant: one object frame more than the probe frames reach
rpi_n_modes_more(P, framerate) == (P \div framerate) + 1

\* time_resolved_rpi.py line 148: the object frames for P probe frames
rpi_n_modes(P, framerate) == ((P - 1) \div framerate) + 1

\* lines 155-159: the shape of probe_fft[pad0l:-pad0r, pad1l:-pad1r] for a
\* probe of shape <<H, W>>; Python's -0 is 0, so a[l:-0] is a[l:0]
probe_lr_shape(probe_shape, obj_size) ==
    LET pad0l == (probe_shape[1] - obj_size[1]) \div 2
        pad0r == probe_shape[1] - obj_size[1] - pad0l
        pad1l == (probe_shape[2] - obj_size[2]) \div 2
        pad1r == probe_shape[2] - obj_size[2] - pad1l
    IN  <<Taken(pad0l, -pad0r, probe_shape[1]), Taken(pad1l, -pad1r, probe_shape[2])>>

\* lines 140-168 for a probe of P frames: the object guess has n_modes frames
\* of obj_size, the support has the shape of the cropped spectrum (all true
\* for probe_threshold = 0 and a spectrum without zeros); t.max of an empty
\* crop raises, and so does the product of the object with a support of
\* another shape
rpi_from_dataset(probe_arg, framerate, obj_size) ==
    LET lr == probe_lr_shape(<<probe_arg.shape[2], probe_arg.shape[3]>>, obj_size)
        n_modes == rpi_n_modes(probe_arg.shape[1], framerate)
        r == rpi_init(probe_arg, Ones(<<n_modes>> \o obj_size), framerate, Ones(obj_size))
    IN  [raised |-> lr # obj_size,
         error |-> IF lr[1] = 0 \/ lr[2] = 0 THEN "RuntimeError: max of an empty tensor"
                   ELSE IF lr # obj_size THEN "RuntimeError: shapes do not broadcast"
                        ELSE "",
         probe_lr_fft |-> lr,
         model |-> r.model, probe |-> r.probe, obj |-> r.obj, background |-> r.background,
         weights |-> r.weights, translation_offsets |-> r.translation_offsets]

\* from_dataset has run with result r; probe_lr_fft is what the crop gave
RPIBuilt(probe_arg, framerate, obj_size, r) ==
    /\ pc = "idle"
    /\ op = <<"start", "returned">>
    /\ model = NoModel
    /\ hist' = [hist EXCEPT !.args = [framerate |-> framerate, obj_size |-> obj_size,
                                      probe_shape |-> probe_arg.shape],
                            !.error = Val(r.error)]
    /\ op' = <<"from_dataset", IF r.raised THEN "raised" ELSE "returned">>
    /\ locals' = [NoLocals EXCEPT !.result = Val([probe_lr_fft |-> r.probe_lr_fft])]
    /\ pc' = pc
    /\ IF r.raised
       THEN UNCHANGED <<model, params>>
       ELSE /\ model' = r.model
            /\ probe' = r.probe
            /\ obj' = r.obj
            /\ background' = r.background
            /\ weights' = r.weights
            /\ translation_offsets' = r.translation_offsets

RPIFromDataset(probe_arg, framerate, obj_size) ==
    RPIBuilt(probe_arg, framerate, obj_size, rpi_from_dataset(probe_arg, framerate, obj_size))

\* probes of P frames on a 3 x 4 grid
FrameInputs ==
    { Array(<<P, 3, 4>>, [ix \in Seq(Nat) |-> Cx(ix[1], ix[2] - ix[3], 1)]) : P \in 1..MaxFrames }

\* object sizes that are not larger than the probe
ObjSizes == { <<h, w>> : h \in 1..3, w \in 1..4 }

NextRPISetup ==
    \/ \E probe_arg \in FrameInputs, framerate \in 1..MaxRate, obj_size \in ObjSizes :
          RPIFromDataset(probe_arg, framerate, obj_size)
    \/ \E index \in { Single(1), Batch(<<1, 1>>) } : Interaction(index, ToPixel(index))

SpecRPISetup == InitConstruct /\ [][NextRPISetup]_vars

-----------------------------------------------------------------------------
(* Properties of tidy_probes and orthogonalize_probes *)

\* the mixed state of one shot, pixel by pixel: probes^T . rho . conj(probes)
\* with rho = W^T . conj(W); its diagonal is the incoherent-sum intensity
MixedState(probes, W) ==
    MatMul(Transpose(Flatten(probes)),
           MatMul(MatMul(Transpose(W), Conj(W)), Conj(Flatten(probes))))

MutuallyOrthogonal(probes) ==
    \A i \in 1..Len(probes) : \A j \in 1..Len(probes) :
        i # j => Inner(Flatten(probes)[i], Flatten(probes)[j]) = Zero

Returned(name) == pc = "idle" /\ op = <<name, "returned">>
RaisedIn(name) == pc = "idle" /\ op = <<name, "raised">>

MatrixCase == hist.old # None /\ hist.old.weights # None /\ Len(hist.old.weights.shape) = 3
IncoherentCase == hist.old # None /\ hist.old.weights # None /\ Len(hist.old.weights.shape) = 1

NegativeSeen(site) == \E e \in hist.eigs : e[1] = site /\ IsNeg(e[2])

\* C3: after tidy_probes with matrix weights, the mixed state of every shot
\* (and so its incoherent-sum intensity) computed from the new probe and the new
\* weights equals the one computed from the old probe and the old weights.
C3_StatePreserved ==
    (Returned("tidy_probes") /\ MatrixCase) =>
        \A n \in 1..weights.shape[1] :
            MixedState(probe, Nested3(weights)[n])
                = MixedState(hist.old.probe, Nested3(hist.old.weights)[n])

\* C4: after tidy_probes, and for every output of orthogonalize_probes, the
\* inner product over the pixels of two different modes is zero.
C4_Orthogonal ==
    /\ Returned("tidy_probes") => MutuallyOrthogonal(probe)
    /\ Returned("orthogonalize_probes") => MutuallyOrthogonal(locals.ortho_probes.val)

C4_Witness ==
    /\ Returned("tidy_probes")
    /\ MatrixCase
    /\ ~MutuallyOrthogonal(hist.old.probe)
    /\ \A k \in 1..Len(probe) : Inner(Flatten(probe)[k], Flatten(probe)[k]) # Zero

\* C5: no negative number is ever handed to the square root, in
\* orthogonalize_probes and in the per-shot step of tidy_probes alike, and an
\* indefinite density matrix raises no error: an error needs a missing weights
\* array or a non-finite entry.
C5_ClippedBeforeSqrt ==
    /\ \A a \in hist.sqrt_args : ~IsNeg(a[2])
    /\ RaisedIn("orthogonalize_probes") =>
          ~MatFinite(Flatten(hist.old.probe)) \/ ~MatFinite(Matrix(hist.density))
    /\ RaisedIn("tidy_probes") =>
          \/ hist.old.weights = None
          \/ \E ix \in DOMAIN hist.old.weights.at : ~IsFinite(hist.old.weights.at[ix])
          \/ ~MatFinite(Flatten(hist.old.probe))
          \/ locals.normalization.val = Zero

C5_Witness ==
    /\ Returned("tidy_probes")
    /\ NegativeSeen("orthogonalize_probes")
    /\ NegativeSeen("tidy_probes")

\* C7: whenever tidy_probes has stopped, probe and weights are both the old
\* values (it raised) or both the new values it computed (it returned);
\* no failure leaves one of them written and the other not.
C7_NoTornState ==
    /\ RaisedIn("tidy_probes") =>
          probe = hist.old.probe /\ weights = hist.old.weights
    /\ (Returned("tidy_probes") /\ MatrixCase) =>
          probe = locals.ortho_probes.val /\ weights = Array3(locals.new_Ws.val)

C7_Witness ==
    /\ RaisedIn("tidy_probes")
    /\ locals.new_rhos # None

\* C9: with 1-D weights tidy_probes writes the probe only: the weights, the
\* object, the background and the translation offsets keep their values, and
\* the new probe is the old stack orthogonalised against the identity density
\* matrix (mutually orthogonal modes with the same incoherent sum).
C9_IncoherentCase ==
    (Returned("tidy_probes") /\ IncoherentCase) =>
        /\ weights = hist.old.weights
        /\ obj = hist.old.obj
        /\ background = hist.old.background
        /\ translation_offsets = hist.old.translation_offsets
        /\ MutuallyOrthogonal(probe)
        /\ MixedState(probe, Eye(Len(probe)))
              = MixedState(hist.old.probe, Eye(Len(probe)))

C9_Witness ==
    /\ Returned("tidy_probes")
    /\ IncoherentCase
    /\ probe # hist.old.probe

-----------------------------------------------------------------------------
(* Properties of the construction *)

RecognisedNames == { amplitude_mse_1, amplitude_mse_2, poisson_nll_1, poisson_nll_2 }

Constructing == hist.args # None /\ op[1] \in {"__init__", "from_dataset"}

LossError == Val("KeyError: Specified loss function not supported")

\* C1: a loss name that, lower-cased and stripped, is not one of the four
\* recognised names makes the construction fail and leaves no model; a
\* recognised name is never refused, and the model that results holds the
\* amplitude-MSE loss for the two amplitude names and the Poisson-NLL loss for
\* the two Poisson names.
C1_LossName ==
    Constructing =>
        LET name == strip(lower(hist.args.loss))
        IN  /\ name \notin RecognisedNames =>
                 op[2] = "raised" /\ model = NoModel /\ probe = None /\ weights = None
            /\ name \in RecognisedNames => hist.error # LossError
            /\ op[2] = "returned" =>
                 /\ model.cls = "FancyPtycho"
                 /\ name \in {amplitude_mse_1, amplitude_mse_2}
                       => model.loss = "amplitude_mse"
                 /\ name \in {poisson_nll_1, poisson_nll_2}
                       => model.loss = "poisson_nll"

C1_Witness ==
    /\ Constructing
    /\ op = <<"__init__", "raised">>
    /\ hist.error = LossError
    /\ model = NoModel
    /\ lower(hist.args.loss) # hist.args.loss

\* C2: no model exists whose density-matrix rank (the second dimension of
\* matrix weights) exceeds its number of probe modes, whether it was built by
\* from_dataset or by the constructor from a weights array; from_dataset with
\* dm_rank > n_modes fails and leaves no model, and dm_rank = -1 gives rank
\* n_modes.
C2_RankChecked ==
    Constructing =>
        /\ (op[2] = "returned" /\ weights # None /\ Len(weights.shape) = 3)
              => weights.shape[2] <= Len(probe)
        /\ (op[1] = "from_dataset" /\ hist.args.dm_rank # None
               /\ hist.args.dm_rank.val > hist.args.n_modes)
              => op[2] = "raised" /\ model = NoModel
        /\ (op = <<"from_dataset", "returned">> /\ hist.args.dm_rank = Val(-1))
              => weights.shape = <<hist.args.N, hist.args.n_modes, hist.args.n_modes>>

-----------------------------------------------------------------------------
(* Properties of the interaction *)

\* the shots an index argument names, and the leading axes they give the result
ShotsOf(index) == index.ix
LeadOf(index, n) == IF index.batch THEN <<n>> ELSE <<>>

\* probe_k * probe_support at pixel (h, x)
Masked(k, h, x) == CMul(probe[k][h][x], model.probe_support.at[<<h, x>>])

\* C10: with 1-D weights the probes of shot n are the K masked probe modes,
\* each times weights[n]; with matrix weights of shape R x K they are R
\* generalised modes, mode r being the sum over k of weights[n, r, k] times
\* the masked probe mode k; the result has one entry per shot and per mode.
C10_Mixing ==
    (op = <<"interaction", "returned">> /\ weights # None) =>
        LET prs == locals.wave.val.data.prs
            index == hist.args.index
            shots == ShotsOf(index)
            K == Len(probe)
            H == model.probe_support.shape[1]
            W == model.probe_support.shape[2]
        IN  IF Len(weights.shape) = 1
            THEN /\ prs.shape = LeadOf(index, Len(shots)) \o <<K, H, W>>
                 /\ \A n \in 1..Len(shots), k \in 1..K, h \in 1..H, x \in 1..W :
                       prs.at[LeadOf(index, n) \o <<k, h, x>>]
                          = CMul(weights.at[<<shots[n]>>], Masked(k, h, x))
            ELSE /\ prs.shape = LeadOf(index, Len(shots)) \o <<weights.shape[2], H, W>>
                 /\ \A n \in 1..Len(shots), r \in 1..weights.shape[2],
                       h \in 1..H, x \in 1..W :
                       prs.at[LeadOf(index, n) \o <<r, h, x>>]
                          = SumTo([k \in 1..K |->
                                      CMul(weights.at[<<shots[n], r, k>>], Masked(k, h, x))],
                                  K)

C10_Witness ==
    /\ op = <<"interaction", "returned">>
    /\ weights # None
    /\ Len(weights.shape) = 3
    /\ weights.shape[2] # Len(probe)
    /\ hist.args.index = Batch(<<2, 1>>)
    /\ \E h \in 1..model.probe_support.shape[1], x \in 1..model.probe_support.shape[2] :
          model.probe_support.at[<<h, x>>] = Zero /\ probe[1][h][x] # Zero

\* C11: without weights, interaction returns the exit waves of the unweighted
\* (masked) probe modes, for a batch of indices and for a single index alike:
\* it does not fail, and the batch result is the stack of the single results.
C11_UnitWeights ==
    (op[1] = "interaction" /\ model.cls = "FancyPtycho" /\ weights = None) =>
        /\ op[2] = "returned"
        /\ LET prs == locals.wave.val.data.prs
               index == hist.args.index
               K == Len(probe)
               H == model.probe_support.shape[1]
               W == model.probe_support.shape[2]
           IN  /\ prs.shape = LeadOf(index, Len(ShotsOf(index))) \o <<K, H, W>>
               /\ \A n \in 1..Len(ShotsOf(index)), k \in 1..K, h \in 1..H, x \in 1..W :
                     prs.at[LeadOf(index, n) \o <<k, h, x>>] = Masked(k, h, x)

\* the entry for coordinate c of the n-th shot of an index argument
Entry(X, index, n, c) == X.at[LeadOf(index, n) \o <<c>>]

\* translation_scale * translation_offsets[shot, c]
Applied(shot, c) == CMul(Re(model.translation_scale), translation_offsets.at[<<shot, c>>])

\* The pixel translation of each shot is to_pixel(translation) -
\* min_translation + translation_scale * translation_offsets[shot], and
\* corrected_translations converts the same product back
OffsetsApplied ==
    /\ (op = <<"interaction", "returned">> /\ model.cls = "FancyPtycho") =>
          LET index == hist.args.index
              pt == locals.wave.val.data.pix_trans
          IN  /\ pt.shape = LeadOf(index, Len(ShotsOf(index))) \o <<2>>
              /\ \A n \in 1..Len(ShotsOf(index)), c \in 1..2 :
                    Entry(pt, index, n, c)
                       = CAdd(CAdd(Entry(hist.args.to_pixel, index, n, c),
                                   CMul(Re(-1), model.min_translation.at[<<c>>])),
                              IF translation_offsets = None THEN Zero
                              ELSE Applied(ShotsOf(index)[n], c))
    /\ (op = <<"corrected_translations", "returned">> /\ translation_offsets # None) =>
          /\ locals.result.val.offset.shape = translation_offsets.shape
          /\ \A ix \in DOMAIN translation_offsets.at :
                locals.result.val.offset.at[ix] = Applied(ix[1], ix[2])

\* the offset applied is the offset the constructor was given
AsSupplied ==
    (op[2] = "returned" /\ op[1] \in {"__init__", "interaction", "corrected_translations"}
        /\ model.cls = "FancyPtycho" /\ hist.given # None) =>
        \A ix \in DOMAIN hist.given.at : Applied(ix[1], ix[2]) = hist.given.at[ix]

\* C12 as stated: the pixel translation is to_pixel - min_translation +
\* translation_scale * translation_offsets[n], corrected_translations applies
\* the same product, and for every translation_scale the offset applied is
\* the offset supplied to the constructor.
C12_AnyScale == OffsetsApplied /\ AsSupplied

\* C12: the same, with the offset applied equal to the offset supplied for
\* every translation_scale other than zero.
C12_Offsets == OffsetsApplied /\ (model.translation_scale # 0 => AsSupplied)

C12_Witness ==
    /\ op = <<"interaction", "returned">>
    /\ model.translation_scale = 3
    /\ hist.given # None
    /\ hist.args.index = Batch(<<2, 1>>)
    /\ translation_offsets # hist.given

-----------------------------------------------------------------------------
(* Properties of a reconstruction *)

C8_LossPipeline ==
    \A l \in hist.losses :
        /\ l.chain = <<"interaction", "forward_propagator", "measurement">>
        /\ l.plane = "detector"

-----------------------------------------------------------------------------
(* Properties of the propagators *)

\* C14: inverse_far_field(far_field(W)) = W for every wavefield W of every
\* shape, of even and of odd lengths alike.
C14_RoundTrip ==
    op = <<"inverse_far_field", "returned">> => locals.result.val = hist.args.wavefront

C14_Witness ==
    /\ op = <<"inverse_far_field", "returned">>
    /\ hist.args.wavefront.shape = <<3, 4>>
    /\ hist.args.wavefront = FieldB(<<3, 4>>)
    /\ far_field(hist.args.wavefront) # fft(hist.args.wavefront)

\* C15: near_field(W, k) is the inverse transform of the complex product
\* k * FFT(W), inverse_near_field(W, k) is the inverse transform of the
\* complex quotient FFT(W) / k, and inverse_near_field(near_field(W, k), k) = W
\* for every kernel k without zero entries.
C15_NearField ==
    /\ op = <<"near_field", "returned">> =>
          locals.result.val = ifft(ComplexMul(hist.args.kernel, fft(hist.args.wavefront)))
    /\ op = <<"inverse_near_field_of", "returned">> =>
          locals.result.val = ifft(ComplexDiv(fft(hist.args.wavefront), hist.args.kernel))
    /\ (op = <<"inverse_near_field", "returned">>
           /\ \A ix \in DOMAIN hist.args.kernel.at : hist.args.kernel.at[ix] # EZero) =>
          locals.result.val = hist.args.wavefront

\* a translation of whole pixels whose window lies inside the object
Whole(x) == x[3] = 1 /\ x[2] = 0
InsideObject(tr, probe_, object) ==
    /\ Whole(tr[1]) /\ Whole(tr[2])
    /\ 0 <= tr[1][1] /\ tr[1][1] + probe_.shape[1] <= object.shape[1]
    /\ 0 <= tr[2][1] /\ tr[2][1] + probe_.shape[2] <= object.shape[2]

\* C16: for every translation of whole pixels whose window lies inside the
\* object, the exit wave is the probe times the window
\* object[t0 : t0 + H, t1 : t1 + W], without interpolation.
C16_IntegerWindow ==
    (op[1] = "get_exit_waves"
        /\ \A n \in 1..Len(hist.args.translations) :
              InsideObject(hist.args.translations[n], hist.args.probe, hist.args.object)) =>
        /\ op[2] = "returned"
        /\ Len(locals.result.val) = Len(hist.args.translations)
        /\ \A n \in 1..Len(hist.args.translations) :
              /\ locals.result.val[n].shape = hist.args.probe.shape
              /\ \A ix \in DOMAIN hist.args.probe.at :
                    locals.result.val[n].at[ix]
                       = CMul(hist.args.probe.at[ix],
                              hist.args.object.at[<<hist.args.translations[n][1][1] + ix[1],
                                                    hist.args.translations[n][2][1] + ix[2]>>])

-----------------------------------------------------------------------------
(* Properties of the measurement *)

\* C13: the intensity measurement returns is >= 0 at every pixel, whatever
\* the wavefields and the stored background (negative values included), and
\* <= saturation at every pixel when a saturation value is configured.
C13_Intensity ==
    op = <<"measurement", "returned">> =>
        \A ix \in DOMAIN locals.result.val.at :
            /\ IsRealNum(locals.result.val.at[ix])
            /\ ~IsNeg(locals.result.val.at[ix])
            /\ model.saturation # None =>
                  RLeq(locals.result.val.at[ix], model.saturation.val)

C13_Witness ==
    /\ op = <<"measurement", "returned">>
    /\ model.saturation # None
    /\ model.detector_slice # None
    /\ \E ix \in DOMAIN background.at : IsNeg(background.at[ix])
    /\ Len(hist.args.wavefields.shape) = 4
    /\ \E ix \in DOMAIN locals.result.val.at :
          locals.result.val.at[ix] = model.saturation.val
    /\ \E ix \in DOMAIN locals.result.val.at :
          locals.result.val.at[ix] # model.saturation.val

-----------------------------------------------------------------------------
(* Properties of the defaults *)

\* the shape of the detector region: one probe mode, cut by the detector
\* slice when one is set
Region(probe_guess, detector_slice) ==
    IF detector_slice = None
    THEN SubSeq(probe_guess.shape, Len(probe_guess.shape) - 1, Len(probe_guess.shape))
    ELSE SlicedShape(SubSeq(probe_guess.shape, Len(probe_guess.shape) - 1,
                            Len(probe_guess.shape)),
                     detector_slice)

\* C19: construction does not fail for a missing mask or background: without
\* a mask the model's mask is None, and without a background the stored
\* background is 1e-6 everywhere on the detector region, for a stack of modes
\* and for a single 2-D probe guess alike.
C19_Defaults ==
    op[1] = "__init__" =>
        /\ op[2] = "returned"
        /\ hist.args.mask = None => model.mask = None
        /\ hist.args.background = None =>
              /\ background.shape = Region(hist.args.probe_guess, hist.args.detector_slice)
              /\ \A ix \in DOMAIN background.at : background.at[ix] = Cx(1, 0, 1000000)

-----------------------------------------------------------------------------
(* Properties of save_results *)

\* C17: FancyPtycho.save_results returns a dictionary whose keys are exactly
\* basis, translations, probe, object, background and weights, for every
\* model that can be constructed, models without weights included.
C17_SavedKeys ==
    (op[1] = "save_results" /\ model.cls = "FancyPtycho") =>
        /\ op[2] = "returned"
        /\ DOMAIN locals.result.val
              = {"basis", "translations", "probe", "object", "background", "weights"}

\* C18: the exported probe is the stored probe times probe_norm, which is
\* the probe guess the model was built from; the exported background is the
\* square of the stored parameter, so it is never negative, and it is
\* dataset.background when the model came from from_dataset with one.
C18_Exported ==
    (op = <<"save_results", "returned">> /\ model.cls = "FancyPtycho") =>
        /\ locals.result.val.probe = ScaleProbes(model.probe_norm, probe)
        /\ locals.result.val.probe = hist.given.probe_guess
        /\ Evaluate(locals.result.val.background) = BMul(background, background)
        /\ \A ix \in DOMAIN background.at :
              /\ IsRealNum(Evaluate(locals.result.val.background).at[ix])
              /\ ~IsNeg(Evaluate(locals.result.val.background).at[ix])
        /\ hist.given.by = "from_dataset" =>
              Evaluate(locals.result.val.background) = hist.given.background

C18_Witness ==
    /\ op = <<"save_results", "returned">>
    /\ model.probe_norm # One
    /\ Len(probe) > 1
    /\ hist.given.by = "from_dataset"
    /\ hist.given.background # background
    /\ \E ix \in DOMAIN background.at : background.at[ix] \notin { Zero, One }

-----------------------------------------------------------------------------
(* Properties of ePIE *)

\* the shots whose losses the list holds, and whether each is there once
ShotsIn(loss) == { loss[n].shot : n \in 1..Len(loss) }
OncePer(loss) == \A n, k \in 1..Len(loss) : loss[n].shot = loss[k].shot => n = k

\* the mean over the dataset of the losses a pass has recorded
MeanOverShots(loss) ==
    CDiv(SumTo([shot \in 1..MaxShots |->
                   (CHOOSE l \in { loss[n] : n \in 1..Len(loss) } : l.shot = shot).value],
               MaxShots),
         Re(MaxShots))

\* while the generator runs: the pass counter, and the shots of the pass
PassInProgress ==
    pc = "ePIE" =>
        /\ locals.epie.val.it \in 0..locals.epie.val.iterations
        /\ OncePer(locals.epie.val.loss)
        /\ ShotsIn(locals.epie.val.loss) = (1..MaxShots) \ locals.epie.val.todo

\* what one step of the generator does to the pass counter and its result
PassStep ==
    /\ op' = <<"ePIE", "called">> => locals'.epie.val.it = 0
    /\ (op' = <<"ePIE", "running">> /\ pc = "ePIE") =>
          locals'.epie.val.it = locals.epie.val.it
    /\ (op' = <<"ePIE", "yielded">> /\ pc = "ePIE") =>
          /\ ShotsIn(locals.epie.val.loss) = 1..MaxShots
          /\ OncePer(locals.epie.val.loss)
          /\ locals'.result.val.it = locals.epie.val.it
          /\ locals'.result.val.loss = MeanOverShots(locals.epie.val.loss)
          /\ locals'.epie.val.it = locals.epie.val.it + 1
          /\ locals'.epie.val.loss = <<>>
    /\ (op' = <<"ePIE", "returned">> /\ pc = "ePIE") =>
          locals.epie.val.it = locals.epie.val.iterations

\* C21: ePIE(iterations, dataset) runs exactly `iterations` passes and yields
\* once per pass, with it = 0, 1, ..., iterations - 1 in this order; in each
\* pass every pattern of the dataset is processed exactly once, and the loss
\* yielded is the mean of the losses of the patterns of that pass.
C21_Passes == [](PassInProgress) /\ [][PassStep]_vars

C21_Witness ==
    /\ op = <<"ePIE", "yielded">>
    /\ locals.result.val.it = 1
    /\ locals.epie.val.iterations = 2
    /\ locals.result.val.loss = Cx(3, 0, 4)
    /\ obj # hist.old.obj

-----------------------------------------------------------------------------
(* Properties of the weights from_dataset builds *)

\* the rank dimension from_dataset gives the weights for the dm_rank asked
RankOf(args) == IF args.dm_rank = Val(-1) THEN args.n_modes ELSE args.dm_rank.val

\* the diagonal projector on the first R of K modes
Projector(R, K) ==
    Mat([ij \in (1..K) \X (1..K) |-> IF ij[1] = ij[2] /\ ij[1] <= R THEN One ELSE Zero], K, K)

\* the weights of a model from_dataset has returned, for the dm_rank asked
WeightsBuilt ==
    op = <<"from_dataset", "returned">> =>
        IF hist.args.dm_rank \in { None, Val(0) }
        THEN weights = Ones(<<hist.args.N>>)
        ELSE /\ weights.shape = <<hist.args.N, RankOf(hist.args), hist.args.n_modes>>
             /\ \A ix \in DOMAIN weights.at :
                   weights.at[ix] = IF ix[2] = ix[3] THEN One ELSE Zero
             /\ RankOf(hist.args) >= 1 =>
                   \A n \in 1..hist.args.N :
                      get_rhos(weights, Len(probe))[n]
                         = Projector(RankOf(hist.args), hist.args.n_modes)

\* the rank is between 1 and n_modes, and the probe has n_modes modes
RankInRange ==
    op = <<"from_dataset", "returned">> =>
        /\ hist.args.dm_rank \notin { None, Val(0) } =>
              (1 <= weights.shape[2] /\ weights.shape[2] <= hist.args.n_modes)
        /\ Len(probe) = hist.args.n_modes

\* C22, as stated: the weights are the diagonal R x n_modes matrices (a
\* vector of ones for dm_rank None or 0), and for every dm_rank from_dataset
\* accepts 1 <= R <= n_modes and the probe stack has n_modes modes.
C22_AnyModes == WeightsBuilt /\ RankInRange

\* C22, amended: the same for n_modes >= 1.
C22_InitialWeights ==
    WeightsBuilt /\ (hist.args # None /\ op[1] = "from_dataset" /\ hist.args.n_modes >= 1
                       => RankInRange)

C22_Witness ==
    /\ op = <<"from_dataset", "returned">>
    /\ hist.args.n_modes = 2
    /\ hist.args.dm_rank = Val(1)
    /\ hist.args.N = 2
    /\ weights.shape = <<2, 1, 2>>

-----------------------------------------------------------------------------
(* Properties of the shapes tidy_probes leaves *)

\* whether w is in descending order
Descending(w) == \A i \in 1..(Len(w) - 1) : RLeq(w[i + 1], w[i])

\* C23: after tidy_probes on matrix weights of shape (N, R, K) the weights
\* have shape (N, R, K) again and the probe has K modes of the same spatial
\* shape; the new weight matrix of each shot is diag(sqrt(w)) v^T for the R
\* largest eigenvalues w, in descending order, of the shot's transformed
\* density matrix and their eigenvectors v.
C23_ShapesKept ==
    (Returned("tidy_probes") /\ MatrixCase) =>
        /\ weights.shape = hist.old.weights.shape
        /\ Len(probe) = Len(hist.old.probe)
        /\ \A k \in 1..Len(probe) :
              /\ Len(probe[k]) = Len(hist.old.probe[k])
              /\ Len(probe[k][1]) = Len(hist.old.probe[k][1])
        /\ \A n \in 1..weights.shape[1] :
              \E r \in tidy_shot(locals.new_rhos.val[n], hist.old.weights.shape[2]) :
                 /\ Nested3(weights)[n] = r.W
                 /\ Len(r.eig) = hist.old.weights.shape[2]
                 /\ Descending(r.eig)

-----------------------------------------------------------------------------
(* Properties of one ePIE step *)

\* whether the object pixel ix lies in the window of shape sh at offset c
InWindow(ix, c, sh) == ix[1] - c[1] \in 1..sh[1] /\ ix[2] - c[2] \in 1..sh[2]

\* the rounded pixel translation of a shot
RoundedPixel(shot) ==
    <<Round(CAdd(ShotPixel(shot).at[<<1>>], CMul(Re(-1), model.min_translation.at[<<1>>]))),
      Round(CAdd(ShotPixel(shot).at[<<2>>], CMul(Re(-1), model.min_translation.at[<<2>>])))>>

\* x + conj(y) * d / (probe_norm * m)
Updated(x, y, d, m) ==
    CAdd(x, CMul(CDiv(One, CMul(model.probe_norm, m)), CMul(CConj(y), d)))

\* a step of the inner loop on the shot it takes from those still to do
StepFromOldValues ==
    (pc = "ePIE" /\ op' = <<"ePIE", "running">>) =>
        LET shot == CHOOSE x \in locals.epie.val.todo : x \notin locals'.epie.val.todo
            c == RoundedPixel(shot)
        IN  /\ obj'.shape = obj.shape
            /\ \A ix \in DOMAIN obj.at :
                  ~InWindow(ix, c, probe.shape) => obj'.at[ix] = obj.at[ix]
            /\ \E delta \in EpieDeltas \cup { Array2(<< <<Zero, Zero>> >>) } :
                  /\ \A ix \in DOMAIN probe.at :
                        probe'.at[ix]
                           = Updated(probe.at[ix], obj.at[<<ix[1] + c[1], ix[2] + c[2]>>],
                                     delta.at[ix], MaxAbsSq(obj))
                  /\ \A ix \in DOMAIN probe.at :
                        obj'.at[<<ix[1] + c[1], ix[2] + c[2]>>]
                           = Updated(obj.at[<<ix[1] + c[1], ix[2] + c[2]>>], probe.at[ix],
                                     delta.at[ix], MaxAbsSq(probe))

\* C24: in each ePIE step the probe update and the object update are both
\* computed from the probe and the object as they are when the step starts,
\* and the object changes only inside the window of the probe's shape at the
\* rounded pixel translation of the shot.
C24_Step == [][StepFromOldValues]_vars

C24_Witness ==
    /\ op = <<"ePIE", "running">>
    /\ Len(locals.epie.val.loss) = 2
    /\ probe # hist.old.probe
    /\ \E ix \in DOMAIN obj.at :
          /\ InWindow(ix, RoundedPixel(locals.epie.val.loss[2].shot), probe.shape)
          /\ obj.at[ix] # hist.old.obj.at[ix]
    /\ \E ix \in DOMAIN obj.at :
          ~InWindow(ix, RoundedPixel(locals.epie.val.loss[2].shot), probe.shape)

-----------------------------------------------------------------------------
(* Properties of TimeResolvedRPI.from_dataset *)

\* the object frames the exit waves of an interaction were built from
FramesUsed == { locals.wave.val.data.frames[i] : i \in 1..probe.shape[1] }

\* C25: probe frame i meets object frame i // framerate, and from_dataset
\* allocates (P - 1) // framerate + 1 object frames for P probe frames: no
\* probe frame asks for an object frame that is not there, and every object
\* frame is used by a probe frame.
C25_Frames ==
    (op[1] = "interaction" /\ model.cls = "TimeResolvedRPI") =>
        /\ op[2] = "returned"
        /\ obj.shape[1] = ((probe.shape[1] - 1) \div model.framerate) + 1
        /\ \A i \in 1..probe.shape[1] :
              locals.wave.val.data.frames[i] = ((i - 1) \div model.framerate) + 1
        /\ FramesUsed = 1..obj.shape[1]

C25_Witness ==
    /\ op = <<"interaction", "returned">>
    /\ model.cls = "TimeResolvedRPI"
    /\ probe.shape[1] = 5
    /\ model.framerate = 2
    /\ obj.shape[1] = 3

\* C26: the centred crop of the probe spectrum has exactly the shape obj_size
\* for every obj_size that is not larger than the probe in either dimension,
\* obj_size equal to the probe size in a dimension and odd differences
\* included.
C26_CropShape ==
    (op[1] = "from_dataset" /\ locals.result # None) =>
        locals.result.val.probe_lr_fft = hist.args.obj_size

-----------------------------------------------------------------------------
(* Properties of assignments to the TimeResolvedRPI object *)

\* after random_init(pattern) every element of obj has the magnitude
\* sum(pattern) / sum(|probe|^2)
RandomInitTaken ==
    op = <<"random_init", "returned">> =>
        \A ix \in DOMAIN obj.at :
            AbsSq(obj.at[ix])
               = AbsSq(CDiv(hist.args.pattern_sum, SumAbsSq(probe)))

\* after construction with an obj_support the object is zero outside it
SupportTaken ==
    (op = <<"__init__", "returned">> /\ model.cls = "TimeResolvedRPI") =>
        \A ix \in DOMAIN obj.at :
            model.obj_support.at[<<ix[2], ix[3]>>] = Zero => obj.at[ix] = Zero

\* C27: assignments to the TimeResolvedRPI object reach the learnable state:
\* a read of obj after random_init gives the field just drawn, and after
\* construction with an obj_support the stored object is zero outside the
\* support.
C27_AssignmentsStick == RandomInitTaken /\ SupportTaken

\* C28: the kernel has the shape it was asked for, its entry at (a, b) is
\* computed from the a-th frequency of axis 0 at pitch spacing[0] and the b-th
\* frequency of axis 1 at pitch spacing[1], and near_field can multiply it
\* with the transform of a wavefield of that shape
KernelAsAsked(shape, spacing, kernel) ==
    /\ kernel.shape = shape
    /\ \A a \in 1..shape[1], b \in 1..shape[2] :
          kernel.at[<<a, b>>] = transverse(fftfreq(shape[1], spacing[1])[a],
                                           fftfreq(shape[2], spacing[2])[b])

C28_Kernel ==
    /\ op = <<"generate_angular_spectrum_propagator", "returned">>
          => KernelAsAsked(hist.args.shape, hist.args.spacing, locals.result.val)
    /\ op[1] = "near_field" /\ hist.args.shape # None
          => op[2] = "returned" /\ locals.result.val.shape = hist.args.shape

\* C29: the dataset delivers to the CPU only while from_dataset reads it, and
\* whenever from_dataset has ended, with a model or with an error, the
\* dataset's get_as arguments are the ones it had before the call
C29_Restored ==
    /\ pc = "reading" => locals.dataset.get_as_args = << <<>>, {<<"device", "cpu">>} >>
    /\ (locals.dataset # None /\ pc # "reading")
          => locals.dataset.get_as_args = hist.given.get_as_args

\* the entries of all chunks, one after the other
RECURSIVE Cat(_)
Cat(chunks) == IF Len(chunks) = 0 THEN <<>> ELSE Head(chunks) \o Cat(Tail(chunks))

ChunkedInOrder(args, data) ==
    LET width == IF args.calculation_width = None THEN Len(args.indices)
                 ELSE args.calculation_width.val
    IN  /\ \A c \in 1..Len(data) :
              /\ 1 <= Len(data[c].index) /\ Len(data[c].index) <= width
              /\ Len(data[c].translations) = Len(data[c].index)
              /\ data[c].wave # None
              /\ data[c].wave.val.data.pix_trans.shape[1] = Len(data[c].index)
        /\ \A c \in 1..(Len(data) - 1) : Len(data[c].index) = width
        /\ args.calculation_width = None => Len(data) = 1
        /\ Cat([c \in 1..Len(data) |-> data[c].index]) = args.indices
        /\ Cat([c \in 1..Len(data) |-> data[c].translations]) = args.translations

\* C30 as stated: for every number of indices and every calculation_width,
\* sim_to_dataset returns chunks of at most calculation_width entries (one
\* chunk when it is left out) that pair indices and translations position by
\* position and cover every entry once and in order.
C30_AnyNumber ==
    op[1] = "sim_to_dataset" =>
        /\ op[2] = "returned"
        /\ ChunkedInOrder(hist.args, locals.result.val.data)

\* C30: for at least one index and every calculation_width >= 1 (or none),
\* sim_to_dataset returns chunks of at most calculation_width entries (one
\* chunk when it is left out) that pair indices and translations position by
\* position and cover every entry once and in order; without any index it raises.
C30_Chunks ==
    op[1] = "sim_to_dataset" =>
        IF Len(hist.args.indices) = 0 THEN op[2] = "raised"
        ELSE /\ op[2] = "returned"
             /\ ChunkedInOrder(hist.args, locals.result.val.data)

C30_Witness ==
    /\ op = <<"sim_to_dataset", "returned">>
    /\ hist.args.indices = <<2, 1, 1>>
    /\ hist.args.calculation_width = Val(2)
    /\ Len(locals.result.val.data) = 2
    /\ locals.result.val.data[2].index = <<1>>

=============================================================================
